---- MODULE Spec2Model ----
(***************************************************************************)
(* Node lifecycle of springbokd: AppInitSanityChecks,                      *)
(* AppInitLockDataDirectory, AppInitMain (with its chain-state load loop), *)
(* ThreadImport, the signal handler and PrepareShutdown, as written in     *)
(* src/src/init.cpp.  One process is modelled statement by statement; a    *)
(* second instance of the program on the same data directory appears as    *)
(* the holder of the data-directory lock.                                  *)
(***************************************************************************)
EXTENDS Integers, Sequences, FiniteSets, TLC

(* ------------------------------ bounds -------------------------------- *)

\* number of threads, besides the main thread, that may call PrepareShutdown
MaxAuxCallers == 1
\* largest number of blk?????.dat files in the blocks directory
MaxBlockFiles == 1
\* largest number of -loadblock files
MaxLoadBlock == 1
\* largest value of -dbcache, in MiB, below the values of DbCacheArgs
MaxDbCacheArg == 56
\* largest number of block filter types -blockfilterindex enables
MaxFilterTypes == 2
\* largest number of block files and of -loadblock files of the starts that
\* follow ThreadImport alone
MaxImportFiles == 2

\* largest -prune value, in MiB, of the starts below the smallest target
MaxPruneArg == 2
\* largest index of a block file in the blocks directory of the starts that
\* follow CleanupBlockRevFiles
MaxFileIndex == 3
\* largest number of BerkeleyEnvironment objects created, and of threads that
\* use them
MaxEnvs == 3
MaxWalletThreads == 2

(* ----------------------------- vocabulary ----------------------------- *)

Indexes == {"address", "timestamp", "spent"}

MainThread == 0

Callers == 0 .. MaxAuxCallers

\* 2 * 60 * 60 seconds
TwoHours == 7200

\* the smallest automatic prune target, in MiB
MinPruneMiB == 550

SnapshotFiles == {"mncache.dat", "netfulfilled.dat", "sporks.dat", "governance.dat"}

VARIABLES
    args,                 \* gArgs: the options, fixed at start
    cache,                \* the build and the cache sizes of step 7b
    pc,                   \* position of the main thread
    fRequestShutdown,     \* the process-wide shutdown flag
    dirLock,              \* holder of <datadir>/.lock: "free", "self", "other"
    pidFile,              \* writer of the PID file on disk: "absent", "self", "other"
    fRPCInWarmup,         \* rpc/server.cpp flag cleared by SetRPCWarmupFinished
    sys,                  \* the subsystem objects PrepareShutdown tears down
    fReindex,             \* global fReindex
    fReset, fLoaded, strLoadError,      \* locals of the load loop
    pblocktree, evoDb,    \* instance held by the pointer, 0 = null
    constructed,          \* instance built by a new-expression, not yet assigned
    openBlockTree, openEvo, openCoins,  \* database instances currently open
    deterministicMNManager, quorumSnapshotManager, llmqSystem,
                          \* evo DB instance the object was built on, 0 = null
    g_chainstate,         \* [id, views]: chain-state object, id 0 = null
    disk,                 \* persistent state of the data directory
    fIndex,               \* fAddressIndex, fTimestampIndex, fSpentIndex
    tip,                  \* ChainActive().Tip() is not null
    nAttempts, nPrompts, staleUse, wiped,   \* history of the load loop
    imp,                  \* ThreadImport: position and locals
    fHaveGenesis,
    sd,                   \* PrepareShutdown: per caller position and locals
    cs_Shutdown,          \* owner of the static lock of PrepareShutdown, -1 = free
    hist,                 \* history of the teardown
    initError             \* kind of the failure AppInitMain returned with

vars == << args, cache, pc, fRequestShutdown, dirLock, pidFile, fRPCInWarmup, sys,
           fReindex, fReset, fLoaded, strLoadError, pblocktree, evoDb,
           constructed, openBlockTree, openEvo, openCoins,
           deterministicMNManager, quorumSnapshotManager, llmqSystem,
           g_chainstate, disk, fIndex, tip, nAttempts, nPrompts, staleUse,
           wiped, imp, fHaveGenesis, sd, cs_Shutdown, hist, initError >>

loadVars == << fReindex, fReset, fLoaded, strLoadError, pblocktree, evoDb,
               constructed, openBlockTree, openEvo, openCoins,
               deterministicMNManager, quorumSnapshotManager, llmqSystem,
               g_chainstate, disk, fIndex, tip, nAttempts, nPrompts,
               staleUse, wiped >>

envVars == << dirLock, pidFile >>

importVars == << imp, fHaveGenesis >>

shutdownVars == << sd, cs_Shutdown, hist >>

(* --------------------------- initial state ---------------------------- *)

\* the options of a default start
DefaultArgs ==
    [reindex |-> FALSE, reindexChainstate |-> FALSE, indexes |-> {},
     disablegovernance |-> FALSE, txindex |-> TRUE, persistmempool |-> TRUE,
     nLoadBlock |-> 0, server |-> TRUE, par |-> TRUE, dbcache |-> 16,
     blockfilterindex |-> 0]

\* a data directory never used before
FreshDisk ==
    [populated |-> FALSE, flags |-> {}, coins |-> FALSE, reindexing |-> FALSE,
     blockFiles |-> 0, bootstrap |-> "absent", genesis |-> "ok",
     tipAhead |-> 0]

\* a data directory left by an earlier run with the default options;
\* genesis tells whether its block index holds the genesis block of the
\* configured network (and of the devnet), tipAhead by how many seconds the
\* nTime of the best block is ahead of the adjusted time of this start
UsedDisk ==
    [populated |-> TRUE, flags |-> {}, coins |-> TRUE, reindexing |-> FALSE,
     blockFiles |-> MaxBlockFiles, bootstrap |-> "absent", genesis |-> "ok",
     tipAhead |-> 0]

\* starts that vary what the load loop depends on
LoadScenarios ==
    { [args |-> [DefaultArgs EXCEPT !.reindex = r, !.reindexChainstate = rc],
       disk |-> d] :
        r \in BOOLEAN, rc \in BOOLEAN,
        d \in {FreshDisk, [UsedDisk EXCEPT !.genesis = "wrong"]} \cup
              { [UsedDisk EXCEPT !.coins = c, !.reindexing = ri] :
                  c \in BOOLEAN, ri \in BOOLEAN } }

\* starts that vary what ThreadImport depends on: bootstrap.dat and -loadblock
\* files, and a reindex followed by both
ImportScenarios ==
    { [args |-> [DefaultArgs EXCEPT !.nLoadBlock = n],
       disk |-> [UsedDisk EXCEPT !.bootstrap = b]] :
        n \in {0, MaxLoadBlock}, b \in {"absent", "present"} }
    \cup
    { [args |-> [DefaultArgs EXCEPT !.reindex = TRUE,
                                    !.nLoadBlock = MaxLoadBlock],
       disk |-> [UsedDisk EXCEPT !.bootstrap = "present"]] }

\* starts that vary the options read outside the load loop
OptionScenarios ==
    { [args |-> [DefaultArgs EXCEPT !.disablegovernance = g, !.txindex = tx],
       disk |-> UsedDisk] : g \in BOOLEAN, tx \in BOOLEAN }
    \cup
    { [args |-> a, disk |-> UsedDisk] :
        a \in { [DefaultArgs EXCEPT !.persistmempool = FALSE],
                [DefaultArgs EXCEPT !.server = FALSE],
                [DefaultArgs EXCEPT !.par = FALSE] } }

Scenarios == LoadScenarios \cup ImportScenarios \cup OptionScenarios

\* starts that vary the nTime of the best block against the adjusted time
TipScenarios ==
    { [args |-> [DefaultArgs EXCEPT !.reindex = r, !.reindexChainstate = rc],
       disk |-> [UsedDisk EXCEPT !.coins = c, !.tipAhead = ahead]] :
        r \in BOOLEAN, rc \in BOOLEAN, c \in BOOLEAN,
        ahead \in {TwoHours - 1, TwoHours, TwoHours + 1} }

\* starts that vary the sources of ThreadImport: the block files of a
\* reindex, bootstrap.dat and the -loadblock files
SourceScenarios ==
    { [args |-> [DefaultArgs EXCEPT !.reindex = r, !.nLoadBlock = n],
       disk |-> [UsedDisk EXCEPT !.blockFiles = f, !.bootstrap = b]] :
        r \in BOOLEAN, n \in 0 .. MaxImportFiles, f \in 1 .. MaxImportFiles,
        b \in {"absent", "present"} }

\* starts that vary the requested and the persisted index flags
FlagScenarios ==
    { [args |-> [DefaultArgs EXCEPT !.indexes = ix, !.reindex = r,
                                    !.nLoadBlock = MaxLoadBlock],
       disk |-> [UsedDisk EXCEPT !.flags = pf, !.bootstrap = "present"]] :
        ix \in {{}, Indexes}, pf \in SUBSET Indexes, r \in BOOLEAN }

NullChainState == [id |-> 0, views |-> "none"]

\* the limits of txdb.h and index/blockfilterindex.h, in MiB, for a build
\* with small limits, a build with limits of zero and a build with the
\* limits of a 64-bit node
SmallLimits ==
    [nMinDbCache |-> 4, nMaxDbCache |-> 48, nMaxBlockDBCache |-> 2,
     nMaxTxIndexCache |-> 3, max_filter_index_cache |-> 2,
     nMaxCoinsDBCache |-> 8]

ZeroLimits ==
    [nMinDbCache |-> 0, nMaxDbCache |-> 64, nMaxBlockDBCache |-> 0,
     nMaxTxIndexCache |-> 0, max_filter_index_cache |-> 0,
     nMaxCoinsDBCache |-> 0]

LargeLimits ==
    [nMinDbCache |-> 4, nMaxDbCache |-> 16384, nMaxBlockDBCache |-> 2,
     nMaxTxIndexCache |-> 1024, max_filter_index_cache |-> 1024,
     nMaxCoinsDBCache |-> 8]

Builds == {"small", "zero", "large"}

Limits(build) ==
    CASE build = "small" -> SmallLimits
      [] build = "zero" -> ZeroLimits
      [] build = "large" -> LargeLimits

\* the values of -dbcache, in MiB
DbCacheArgs == (-1 .. MaxDbCacheArg) \cup {300, 1024, 16384, 16385}

\* the cache sizes before step 7b computed them
NoCache(build) ==
    [build |-> build, computed |-> FALSE, nTotalCache |-> 0,
     nBlockTreeDBCache |-> 0, nTxIndexCache |-> 0, filter_index_cache |-> 0,
     nCoinDBCache |-> 0, nCoinCacheUsage |-> 0]

InitSys ==
    [rpcServer |-> "off", scriptWorkers |-> FALSE, scheduler |-> "idle",
     g_banman |-> FALSE, g_connman |-> "null", peerLogic |-> FALSE,
     peerLogicRegistered |-> FALSE, g_txindex |-> "null",
     pdsNotificationInterface |-> FALSE, fFeeEstimatesInitialized |-> FALSE,
     mempoolLoaded |-> FALSE, nullDeref |-> FALSE, misordered |-> FALSE,
     scheduled |-> {},
     caches |-> [f \in {"mncache.dat", "governance.dat", "netfulfilled.dat"}
                   |-> "none"]]

InitImp ==
    [pc |-> "notspawned", nFile |-> 0, i |-> 0, imported |-> << >>,
     activated |-> 0, replayed |-> "none", reindexEnd |-> "none",
     skipped |-> {}]

InitSd == [t \in Callers |-> [pc |-> "idle", fRPCInWarmup |-> TRUE]]

InitHist ==
    [teardowns |-> 0, dumps |-> [f \in SnapshotFiles |-> 0],
     mempoolDumps |-> 0, feeWrites |-> 0, flushes |-> 0,
     work |-> {}, first |-> << >>, removedPid |-> "none"]

InitCommon ==
    /\ pc = "Unstarted"
    /\ fRequestShutdown = FALSE
    /\ dirLock \in {"free", "other"}
    /\ pidFile = IF dirLock = "other" THEN "other" ELSE "absent"
    /\ fRPCInWarmup = TRUE
    /\ sys = InitSys
    /\ fReindex = FALSE /\ fReset = FALSE /\ fLoaded = FALSE
    /\ strLoadError = FALSE
    /\ pblocktree = 0 /\ evoDb = 0 /\ constructed = 0
    /\ openBlockTree = {} /\ openEvo = {} /\ openCoins = {}
    /\ deterministicMNManager = 0 /\ quorumSnapshotManager = 0
    /\ llmqSystem = 0
    /\ g_chainstate = NullChainState
    /\ fIndex = {}
    /\ tip = FALSE
    /\ nAttempts = 0 /\ nPrompts = 0 /\ staleUse = FALSE /\ wiped = {}
    /\ imp = InitImp
    /\ fHaveGenesis = FALSE
    /\ sd = InitSd
    /\ cs_Shutdown = -1
    /\ hist = InitHist
    /\ initError = "none"

Init ==
    /\ InitCommon
    /\ cache = NoCache("small")
    /\ \E sc \in Scenarios : args = sc.args /\ disk = sc.disk

InitFlags ==
    /\ InitCommon
    /\ cache = NoCache("small")
    /\ \E sc \in FlagScenarios : args = sc.args /\ disk = sc.disk

\* the starts that vary what the load loop and ThreadImport depend on
InitBringUp ==
    /\ InitCommon
    /\ dirLock = "free"
    /\ cache = NoCache("small")
    /\ \E sc \in SourceScenarios \cup LoadScenarios \cup TipScenarios
                    \cup OptionScenarios :
         args = sc.args /\ disk = sc.disk

\* the starts that vary -dbcache, -txindex, -blockfilterindex and the build
InitCache ==
    /\ InitCommon
    /\ dirLock = "free"
    /\ disk = FreshDisk
    /\ \E build \in Builds : cache = NoCache(build)
    /\ \E n \in DbCacheArgs, tx \in BOOLEAN, f \in 0 .. MaxFilterTypes :
         args = [DefaultArgs EXCEPT !.dbcache = n, !.txindex = tx,
                                    !.blockfilterindex = f]

(* ------------------------------ helpers ------------------------------- *)

\* ShutdownRequested()
ShutdownRequested == fRequestShutdown

\* a return false / return InitError(...) of AppInitMain and its callers
ReturnFalse(kind) ==
    /\ pc' = "InitFailed"
    /\ initError' = kind

Goto(next) ==
    /\ pc' = next
    /\ UNCHANGED initError

(* ----- parameter interaction on the option store gArgs (steps 1, 2, 3) ---- *)

\* the value of an option that no configuration source gives
Unset == "<unset>"

OptionNames ==
    {"bind", "whitebind", "connect", "proxy", "externalip", "listen",
     "dnsseed", "upnp", "natpmp", "discover", "listenonion", "blocksonly",
     "whitelistforcerelay", "whitelistrelay", "prune", "disablegovernance",
     "txindex", "addressindex", "spentindex", "timestampindex", "checklevel",
     "masternodeblsprivkey", "disablewallet", "blockfilterindex",
     "peerblockfilters", "devnet", "port", "rpcport", "server"}

\* a command line and configuration file that give no option
NoOptions == [name \in OptionNames |-> Unset]

\* the integers the option values of the starts spell
Numerals == (-1 .. MaxPruneArg) \cup (0 .. 4) \cup {MinPruneMiB}

\* atoi64: the integer a string spells, 0 when it spells none
atoi64(s) ==
    IF \E n \in Numerals : ToString(n) = s
    THEN CHOOSE n \in Numerals : ToString(n) = s
    ELSE 0

\* InterpretBool: the empty string is true, any other string is its number
InterpretBool(s) == s = "" \/ atoi64(s) # 0

\* ArgsManager::IsArgSet
IsArgSet(o, name) == o[name] # Unset

\* ArgsManager::GetArg with a string default
GetArg(o, name, default) == IF IsArgSet(o, name) THEN o[name] ELSE default

\* ArgsManager::GetArg with an integer default
GetArgInt(o, name, default) ==
    IF IsArgSet(o, name) THEN atoi64(o[name]) ELSE default

\* ArgsManager::GetBoolArg
GetBoolArg(o, name, default) ==
    IF IsArgSet(o, name) THEN InterpretBool(o[name]) ELSE default

\* ArgsManager::ForceSetArg
ForceSetArg(o, name, value) == [o EXCEPT ![name] = value]

\* ArgsManager::SoftSetBoolArg: sets the option only when it is not given
SoftSetBoolArg(o, name, value) ==
    IF IsArgSet(o, name) THEN o
    ELSE ForceSetArg(o, name, IF value THEN "1" ELSE "0")

\* the defaults of the build: DEFAULT_LISTEN, DEFAULT_TXINDEX and
\* DEFAULT_BLOCKFILTERINDEX vary, the others are those of the release
Defaults(listen, txindex, blockfilterindex) ==
    [DEFAULT_LISTEN |-> listen, DEFAULT_TXINDEX |-> txindex,
     DEFAULT_BLOCKFILTERINDEX |-> blockfilterindex,
     DEFAULT_BLOCKSONLY |-> FALSE, DEFAULT_WHITELISTFORCERELAY |-> TRUE,
     DEFAULT_ADDRESSINDEX |-> FALSE, DEFAULT_SPENTINDEX |-> FALSE,
     DEFAULT_TIMESTAMPINDEX |-> FALSE, DEFAULT_PEERBLOCKFILTERS |-> FALSE,
     DEFAULT_CHECKLEVEL |-> 3, RequireRoutableExternalIP |-> TRUE]

\* the option store and the globals the parameter steps assign
ParameterArgs(o, build) ==
    [opts |-> o, given |-> o, build |-> build, g_enabled_filter_types |-> {},
     fPruneMode |-> FALSE, fDisableGovernance |-> FALSE]

\* starts that vary what decides -listen and the options that follow it
ListenScenarios ==
    { ParameterArgs([NoOptions EXCEPT !["bind"] = b, !["whitebind"] = w,
                        !["connect"] = c, !["proxy"] = p,
                        !["externalip"] = e, !["listen"] = l,
                        !["upnp"] = u, !["natpmp"] = n, !["discover"] = d,
                        !["listenonion"] = lo],
                    Defaults(dl, TRUE, "0")) :
        b \in {Unset, "addr"}, w \in {Unset, "addr"}, c \in {Unset, "addr"},
        p \in {Unset, "addr"}, e \in {Unset, "addr"},
        l \in {Unset, "0", "1"}, u \in {Unset, "0", "1"},
        n \in {Unset, "1"}, d \in {Unset, "0", "1"}, lo \in {Unset, "1"},
        dl \in BOOLEAN }

\* the -prune values of the starts
PruneArgs ==
    {Unset} \cup { ToString(n) : n \in (-1 .. MaxPruneArg) \cup {MinPruneMiB} }

\* starts that vary pruning and the options pruning is incompatible with
PruneScenarios ==
    { ParameterArgs([NoOptions EXCEPT !["prune"] = pr, !["txindex"] = tx,
                        !["disablegovernance"] = g,
                        !["blockfilterindex"] = f,
                        !["masternodeblsprivkey"] = m,
                        !["addressindex"] = a],
                    Defaults(TRUE, dtx, df)) :
        pr \in PruneArgs, tx \in {Unset, "0", "1"}, g \in {Unset, "0", "1"},
        f \in {Unset, "0", "1", "", "basic", "bogus"},
        m \in {Unset, "key"}, a \in {Unset, "1"},
        dtx \in BOOLEAN, df \in {"0", "basic"} }

\* binding rules that leave -listen alone
BindImpliesListen_Not(o) == o

\* when specifying an explicit binding address, you want to listen on it
\* even when -connect or -proxy is specified
BindImpliesListen(o) ==
    IF IsArgSet(o, "bind") \/ IsArgSet(o, "whitebind")
    THEN SoftSetBoolArg(o, "listen", TRUE) ELSE o

\* the option store InitParameterInteraction leaves: its rules in the order
\* of the code, each applied to the store the one before it left
ParameterInteraction(o, build) ==
    LET Then(stores, Rule(_)) == { Rule(x) : x \in stores }
        connect(x) ==
            IF IsArgSet(x, "connect")
            THEN SoftSetBoolArg(SoftSetBoolArg(x, "dnsseed", FALSE),
                                "listen", FALSE)
            ELSE x
        proxy(x) ==
            IF IsArgSet(x, "proxy")
            THEN SoftSetBoolArg(
                   SoftSetBoolArg(
                     SoftSetBoolArg(SoftSetBoolArg(x, "listen", FALSE),
                                    "upnp", FALSE),
                     "natpmp", FALSE),
                   "discover", FALSE)
            ELSE x
        listen(x) ==
            IF ~GetBoolArg(x, "listen", build.DEFAULT_LISTEN)
            THEN SoftSetBoolArg(
                   SoftSetBoolArg(
                     SoftSetBoolArg(SoftSetBoolArg(x, "upnp", FALSE),
                                    "natpmp", FALSE),
                     "discover", FALSE),
                   "listenonion", FALSE)
            ELSE x
        externalip(x) ==
            IF IsArgSet(x, "externalip")
            THEN SoftSetBoolArg(x, "discover", FALSE) ELSE x
        blocksonly(x) ==
            IF GetBoolArg(x, "blocksonly", build.DEFAULT_BLOCKSONLY)
            THEN SoftSetBoolArg(x, "whitelistrelay", FALSE) ELSE x
        forcerelay(x) ==
            IF GetBoolArg(x, "whitelistforcerelay",
                          build.DEFAULT_WHITELISTFORCERELAY)
            THEN SoftSetBoolArg(x, "whitelistrelay", TRUE) ELSE x
        prune(x) ==
            IF GetArgInt(x, "prune", 0) > 0
            THEN SoftSetBoolArg(SoftSetBoolArg(x, "disablegovernance", TRUE),
                                "txindex", FALSE)
            ELSE x
        checklevel(x) ==
            LET fAdditionalIndexes ==
                  \/ GetBoolArg(x, "addressindex", build.DEFAULT_ADDRESSINDEX)
                  \/ GetBoolArg(x, "spentindex", build.DEFAULT_SPENTINDEX)
                  \/ GetBoolArg(x, "timestampindex",
                                build.DEFAULT_TIMESTAMPINDEX)
            IN  IF /\ fAdditionalIndexes
                   /\ GetArgInt(x, "checklevel", build.DEFAULT_CHECKLEVEL) < 4
                THEN ForceSetArg(x, "checklevel", "4") ELSE x
        masternodeblsprivkey(x) ==
            IF IsArgSet(x, "masternodeblsprivkey")
            THEN SoftSetBoolArg(x, "disablewallet", TRUE) ELSE x
    IN  CHOOSE r \in
          Then(Then(Then(Then(Then(Then(Then(Then(Then(Then({o},
            BindImpliesListen), connect), proxy), listen), externalip),
            blocksonly), forcerelay), prune), checklevel),
            masternodeblsprivkey) : TRUE

\* InitParameterInteraction(), called by main before AppInitParameterInteraction
InitParameterInteraction ==
    /\ pc = "Parameters"
    /\ args' = [args EXCEPT !.opts = ParameterInteraction(args.opts, args.build)]
    /\ Goto("ParameterChecks")
    /\ UNCHANGED << cache, fRequestShutdown, envVars, fRPCInWarmup, sys,
                    loadVars, importVars, shutdownVars >>

\* the filter types -blockfilterindex names; "unknown" for a name of no type
EnabledFilterTypes(o, build) ==
    LET blockfilterindex_value ==
            GetArg(o, "blockfilterindex", build.DEFAULT_BLOCKFILTERINDEX)
    IN  IF blockfilterindex_value = "" \/ blockfilterindex_value = "1"
        THEN {"basic"}
        ELSE IF blockfilterindex_value # "0"
        THEN IF o["blockfilterindex"] = "basic" THEN {"basic"}
             ELSE IF IsArgSet(o, "blockfilterindex") THEN {"unknown"}
             ELSE {}
        ELSE {}

\* the prune checks of step 2 that reject every start
PruneConflict_Never(o, build, filters) == FALSE

\* if (gArgs.GetArg("-prune", 0)) { ... return InitError(...) ... }
PruneConflict(o, build, filters) ==
    /\ GetArgInt(o, "prune", 0) # 0
    /\ \/ GetBoolArg(o, "txindex", build.DEFAULT_TXINDEX)
       \/ ~GetBoolArg(o, "disablegovernance", FALSE)
       \/ filters # {}

\* the -devnet checks of step 2
DevnetConflict(o, build) ==
    /\ IsArgSet(o, "devnet")
    /\ \/ /\ GetArgInt(o, "listen", IF build.DEFAULT_LISTEN THEN 1 ELSE 0) # 0
          /\ ~IsArgSet(o, "port")
       \/ GetArgInt(o, "server", 0) # 0 /\ ~IsArgSet(o, "rpcport")

\* -bind and -whitebind can't be set when not listening
BindConflict(o, build) ==
    /\ IsArgSet(o, "bind") \/ IsArgSet(o, "whitebind")
    /\ ~GetBoolArg(o, "listen", build.DEFAULT_LISTEN)

\* the prune target of step 3 is negative or below the minimum
PruneTargetInvalid(o) ==
    LET nPruneArg == GetArgInt(o, "prune", 0)
    IN  \/ nPruneArg < 0
        \/ nPruneArg # 0 /\ nPruneArg # 1 /\ nPruneArg < MinPruneMiB

\* the masternode checks that end step 3
MasternodeConflict(o, build) ==
    /\ IsArgSet(o, "masternodeblsprivkey")
    /\ \/ /\ ~GetBoolArg(o, "listen", build.DEFAULT_LISTEN)
          /\ build.RequireRoutableExternalIP
       \/ ~GetBoolArg(o, "txindex", build.DEFAULT_TXINDEX)
       \/ GetArgInt(o, "prune", 0) > 0
       \/ GetBoolArg(o, "disablegovernance", FALSE)

\* AppInitParameterInteraction(): steps 2 and 3; other stands for the checks
\* of options and of the system that the starts do not vary
AppInitParameterInteraction ==
    /\ pc = "ParameterChecks"
    /\ LET o == args.opts
           build == args.build
           filters == EnabledFilterTypes(o, build)
       IN  \E other \in BOOLEAN :
             IF \/ "unknown" \in filters
                \/ /\ GetBoolArg(o, "peerblockfilters",
                                 build.DEFAULT_PEERBLOCKFILTERS)
                   /\ "basic" \notin filters
             THEN UNCHANGED args /\ ReturnFalse("config")
             ELSE IF \/ PruneConflict(o, build, filters)
                     \/ DevnetConflict(o, build)
                     \/ BindConflict(o, build)
                     \/ PruneTargetInvalid(o)
                     \/ MasternodeConflict(o, build)
                     \/ other
             THEN /\ args' = [args EXCEPT !.g_enabled_filter_types = filters]
                  /\ ReturnFalse("config")
             ELSE /\ args' = [args EXCEPT
                                !.g_enabled_filter_types = filters,
                                !.fPruneMode = GetArgInt(o, "prune", 0) > 0,
                                !.fDisableGovernance =
                                    GetBoolArg(o, "disablegovernance", FALSE)]
                  /\ Goto("Unstarted")
    /\ UNCHANGED << cache, fRequestShutdown, envVars, fRPCInWarmup, sys,
                    loadVars, importVars, shutdownVars >>

\* every other field of the start state of a fresh process
NothingAllocated ==
    /\ fRequestShutdown = FALSE
    /\ dirLock = "free" /\ pidFile = "absent"
    /\ fRPCInWarmup = TRUE
    /\ sys = InitSys
    /\ fReindex = FALSE /\ fReset = FALSE /\ fLoaded = FALSE
    /\ strLoadError = FALSE
    /\ pblocktree = 0 /\ evoDb = 0 /\ constructed = 0
    /\ openBlockTree = {} /\ openEvo = {} /\ openCoins = {}
    /\ deterministicMNManager = 0 /\ quorumSnapshotManager = 0
    /\ llmqSystem = 0
    /\ g_chainstate = NullChainState
    /\ fIndex = {}
    /\ tip = FALSE
    /\ nAttempts = 0 /\ nPrompts = 0 /\ staleUse = FALSE /\ wiped = {}
    /\ imp = InitImp
    /\ fHaveGenesis = FALSE
    /\ sd = InitSd
    /\ cs_Shutdown = -1
    /\ hist = InitHist

\* the starts that vary the options of the parameter steps
InitParameters ==
    /\ pc = "Parameters"
    /\ initError = "none"
    /\ NothingAllocated
    /\ cache = NoCache("small")
    /\ disk = UsedDisk
    /\ args \in ListenScenarios \cup PruneScenarios

NextParameters ==
    \/ InitParameterInteraction
    \/ AppInitParameterInteraction

SpecParameters == InitParameters /\ [][NextParameters]_vars

(* -------- HandleSIGTERM: the signal handler sets the flag only -------- *)

\* StartShutdown(); a signal that arrives when Shutdown() runs and
\* ThreadImport has ended is left out: nothing reads the flag any more
HandleSIGTERM ==
    /\ pc \notin {"Shutdown", "Exited"} \/ imp.pc \notin {"notspawned", "done"}
    /\ pc # "Exited"
    /\ ~fRequestShutdown
    /\ fRequestShutdown' = TRUE
    /\ UNCHANGED << args, cache, pc, envVars, fRPCInWarmup, sys, loadVars,
                    importVars, shutdownVars, initError >>

(* ------- the other instance of the program on this directory ---------- *)

\* another instance passes its own AppInitLockDataDirectory and AppInitMain;
\* it is followed while this process is starting or running
OtherInstanceStarts ==
    /\ dirLock = "free"
    /\ pc \notin {"InitFailed", "Shutdown", "Exited"}
    /\ dirLock' = "other"
    /\ pidFile' = "other"
    /\ UNCHANGED << args, cache, pc, fRequestShutdown, fRPCInWarmup, sys, loadVars,
                    importVars, shutdownVars, initError >>

\* the other instance shuts down and exits, which releases its lock
OtherInstanceExits ==
    /\ dirLock = "other"
    /\ pc \notin {"InitFailed", "Shutdown", "Exited"}
    /\ dirLock' = "free"
    /\ pidFile' = IF pidFile = "other" THEN "absent" ELSE pidFile
    /\ UNCHANGED << args, cache, pc, fRequestShutdown, fRPCInWarmup, sys, loadVars,
                    importVars, shutdownVars, initError >>

(* ------------------- LockDataDirectory and callers --------------------- *)

\* LockDirectory(datadir, ".lock", probeOnly): result and lock state after it
LockDirectory(probeOnly) ==
    IF dirLock = "other"
    THEN [ok |-> FALSE, lock |-> dirLock]
    ELSE [ok |-> TRUE, lock |-> IF probeOnly THEN dirLock ELSE "self"]

\* LockDataDirectory(probeOnly): if (!DirIsWritable(datadir)) return
\* InitError(..); if (!LockDirectory(..)) return InitError(..); return true;
LockDataDirectory(probeOnly, next) ==
    \E writable \in BOOLEAN :
        IF ~writable
        THEN UNCHANGED dirLock /\ ReturnFalse("other")
        ELSE LET r == LockDirectory(probeOnly) IN
             /\ dirLock' = r.lock
             /\ IF r.ok THEN Goto(next) ELSE ReturnFalse("lock")

AppInitSanityChecks ==
    /\ pc = "Unstarted"
    /\ \E sane \in BOOLEAN :
         IF sane
         THEN LockDataDirectory(TRUE, "SanityChecked")
         ELSE ReturnFalse("other") /\ UNCHANGED dirLock
    /\ UNCHANGED << args, cache, fRequestShutdown, pidFile, fRPCInWarmup, sys,
                    loadVars, importVars, shutdownVars >>

\* AppInitLockDataDirectory that only probes the lock again
AppInitLockDataDirectory_ProbeOnly ==
    /\ pc = "SanityChecked"
    /\ LockDataDirectory(TRUE, "Locked")
    /\ UNCHANGED << args, cache, fRequestShutdown, pidFile, fRPCInWarmup, sys,
                    loadVars, importVars, shutdownVars >>

\* if (!LockDataDirectory(false)) return false; return true;
AppInitLockDataDirectory ==
    /\ pc = "SanityChecked"
    /\ LockDataDirectory(FALSE, "Locked")
    /\ UNCHANGED << args, cache, fRequestShutdown, pidFile, fRPCInWarmup, sys,
                    loadVars, importVars, shutdownVars >>

(* ---------------- AppInitMain, steps 4a to 7a -------------------------- *)

\* CreatePidFile()
CreatePidFile ==
    /\ pc = "Locked"
    /\ \E ok \in BOOLEAN :
         IF ok
         THEN pidFile' = "self" /\ Goto("Step4a")
         ELSE UNCHANGED pidFile /\ ReturnFalse("other")
    /\ UNCHANGED << args, cache, fRequestShutdown, dirLock, fRPCInWarmup, sys,
                    loadVars, importVars, shutdownVars >>

\* script-check workers, spork options, scheduler thread
StartWorkersAndScheduler ==
    /\ pc = "Step4a"
    /\ \E sporkOk \in BOOLEAN :
         IF sporkOk
         THEN /\ sys' = [sys EXCEPT !.scriptWorkers = args.par,
                                    !.scheduler = "running"]
              /\ Goto("StartRPC")
         ELSE /\ sys' = [sys EXCEPT !.scriptWorkers = args.par]
              /\ ReturnFalse("config")
    /\ UNCHANGED << args, cache, fRequestShutdown, envVars, fRPCInWarmup, loadVars,
                    importVars, shutdownVars >>

\* a step 4a that leaves the RPC/HTTP layer to a later step
StartRPCServer_Skipped ==
    /\ pc = "StartRPC"
    /\ UNCHANGED sys /\ Goto("Step5")
    /\ UNCHANGED << args, cache, fRequestShutdown, envVars, fRPCInWarmup, loadVars,
                    importVars, shutdownVars >>

\* -server: AppInitServers() starts the RPC/HTTP layer, which is in warmup
StartRPCServer ==
    /\ pc = "StartRPC"
    /\ \E ok \in BOOLEAN :
         IF ~args.server
         THEN UNCHANGED sys /\ Goto("Step5")
         ELSE IF ok
         THEN sys' = [sys EXCEPT !.rpcServer = "on"] /\ Goto("Step5")
         ELSE UNCHANGED sys /\ ReturnFalse("other")
    /\ UNCHANGED << args, cache, fRequestShutdown, envVars, fRPCInWarmup, loadVars,
                    importVars, shutdownVars >>

\* step 5: wallet backup and verification
VerifyWallets ==
    /\ pc = "Step5"
    /\ \E ok \in BOOLEAN :
         IF ok THEN Goto("Step6") ELSE ReturnFalse("other")
    /\ UNCHANGED << args, cache, fRequestShutdown, envVars, fRPCInWarmup, sys,
                    loadVars, importVars, shutdownVars >>

\* step 6: g_banman, g_connman and peerLogic are created
CreateNetworkObjects ==
    /\ pc = "Step6"
    /\ sys' = [sys EXCEPT !.g_banman = TRUE, !.g_connman = "created",
                          !.peerLogic = TRUE, !.peerLogicRegistered = TRUE]
    /\ Goto("Step6Options")
    /\ UNCHANGED << args, cache, fRequestShutdown, envVars, fRPCInWarmup, loadVars,
                    importVars, shutdownVars >>

\* step 6: -uacomment, -onlynet, -proxy, -onion, -externalip, -asmap are
\* checked, then pdsNotificationInterface is created
CheckNetworkOptions ==
    /\ pc = "Step6Options"
    /\ \E ok \in BOOLEAN :
         IF ok
         THEN /\ sys' = [sys EXCEPT !.pdsNotificationInterface = TRUE]
              /\ Goto("Step7a")
         ELSE UNCHANGED sys /\ ReturnFalse("config")
    /\ UNCHANGED << args, cache, fRequestShutdown, envVars, fRPCInWarmup, loadVars,
                    importVars, shutdownVars >>

(* cache size calculations: the code counts bytes in an int64_t; the model
   counts units of 64 bytes, which is exact for every division below as long
   as -blockfilterindex enables at most two filter types; with more the
   shares are those of a total counted in these units *)

\* 1 << 20 bytes
MiB == 16384

Min(a, b) == IF a < b THEN a ELSE b

Max(a, b) == IF a > b THEN a ELSE b

\* gArgs.GetArg("-dbcache", nDefaultDbCache) << 20: shifting a negative
\* value is undefined, so that a build may produce any total
ShiftLeft20(n) ==
    IF n >= 0
    THEN {n * MiB}
    ELSE {n * MiB, 0, 5 * MiB, 20000 * MiB}

\* nTotalCache = std::max(nTotalCache, nMinDbCache << 20);
\* nTotalCache = std::min(nTotalCache, nMaxDbCache << 20);
ClampTotalCache(nTotalCache, l) ==
    Min(Max(nTotalCache, l.nMinDbCache * MiB), l.nMaxDbCache * MiB)

\* a total from which the tx-index cache is not deducted
CacheSizes_TxIndexNotDeducted(shifted, txindex, n_indexes, build) ==
    LET l == Limits(build)
        nTotal0 == ClampTotalCache(shifted, l)
        nBlockTreeDBCache == Min(nTotal0 \div 8, l.nMaxBlockDBCache * MiB)
        nTotal1 == nTotal0 - nBlockTreeDBCache
        nTxIndexCache ==
            Min(nTotal1 \div 8,
                IF txindex THEN l.nMaxTxIndexCache * MiB ELSE 0)
        nTotal2 == nTotal1
        max_cache == Min(nTotal2 \div 8, l.max_filter_index_cache * MiB)
        filter_index_cache ==
            IF n_indexes > 0 THEN max_cache \div n_indexes ELSE 0
        nTotal3 == nTotal2 - filter_index_cache * n_indexes
        nCoinDBCache ==
            Min(Min(nTotal3 \div 2, (nTotal3 \div 4) + 8 * MiB),
                l.nMaxCoinsDBCache * MiB)
    IN  [build |-> build, computed |-> TRUE, nTotalCache |-> nTotal0,
         nBlockTreeDBCache |-> nBlockTreeDBCache,
         nTxIndexCache |-> nTxIndexCache,
         filter_index_cache |-> filter_index_cache,
         nCoinDBCache |-> nCoinDBCache,
         nCoinCacheUsage |-> nTotal3 - nCoinDBCache]

\* cache sizes that give every filter index the whole pool
CacheSizes_PoolNotSplit(shifted, txindex, n_indexes, build) ==
    LET l == Limits(build)
        nTotal0 == ClampTotalCache(shifted, l)
        nBlockTreeDBCache == Min(nTotal0 \div 8, l.nMaxBlockDBCache * MiB)
        nTotal1 == nTotal0 - nBlockTreeDBCache
        nTxIndexCache ==
            Min(nTotal1 \div 8,
                IF txindex THEN l.nMaxTxIndexCache * MiB ELSE 0)
        nTotal2 == nTotal1 - nTxIndexCache
        max_cache == Min(nTotal2 \div 8, l.max_filter_index_cache * MiB)
        filter_index_cache == IF n_indexes > 0 THEN max_cache ELSE 0
        nTotal3 == nTotal2 - filter_index_cache * n_indexes
        nCoinDBCache ==
            Min(Min(nTotal3 \div 2, (nTotal3 \div 4) + 8 * MiB),
                l.nMaxCoinsDBCache * MiB)
    IN  [build |-> build, computed |-> TRUE, nTotalCache |-> nTotal0,
         nBlockTreeDBCache |-> nBlockTreeDBCache,
         nTxIndexCache |-> nTxIndexCache,
         filter_index_cache |-> filter_index_cache,
         nCoinDBCache |-> nCoinDBCache,
         nCoinCacheUsage |-> nTotal3 - nCoinDBCache]

\* the cache sizes of step 7b; nTotalCache records the clamped total
CacheSizes(shifted, txindex, n_indexes, build) ==
    LET l == Limits(build)
        nTotal0 == ClampTotalCache(shifted, l)
        nBlockTreeDBCache == Min(nTotal0 \div 8, l.nMaxBlockDBCache * MiB)
        nTotal1 == nTotal0 - nBlockTreeDBCache
        nTxIndexCache ==
            Min(nTotal1 \div 8,
                IF txindex THEN l.nMaxTxIndexCache * MiB ELSE 0)
        nTotal2 == nTotal1 - nTxIndexCache
        max_cache == Min(nTotal2 \div 8, l.max_filter_index_cache * MiB)
        filter_index_cache ==
            IF n_indexes > 0 THEN max_cache \div n_indexes ELSE 0
        nTotal3 == nTotal2 - filter_index_cache * n_indexes
        nCoinDBCache ==
            Min(Min(nTotal3 \div 2, (nTotal3 \div 4) + 8 * MiB),
                l.nMaxCoinsDBCache * MiB)
    IN  [build |-> build, computed |-> TRUE, nTotalCache |-> nTotal0,
         nBlockTreeDBCache |-> nBlockTreeDBCache,
         nTxIndexCache |-> nTxIndexCache,
         filter_index_cache |-> filter_index_cache,
         nCoinDBCache |-> nCoinDBCache,
         nCoinCacheUsage |-> nTotal3 - nCoinDBCache]

\* step 7a: sporks cache; step 7b begins: fReindex = -reindex, cache sizes
LoadSporks ==
    /\ pc = "Step7a"
    /\ \E ok \in BOOLEAN :
         IF ok
         THEN /\ fReindex' = args.reindex
              /\ \E shifted \in ShiftLeft20(args.dbcache) :
                   cache' = CacheSizes(shifted, args.txindex,
                                       args.blockfilterindex, cache.build)
              /\ Goto("LoopCond")
         ELSE UNCHANGED << fReindex, cache >> /\ ReturnFalse("other")
    /\ UNCHANGED << args, fRequestShutdown, envVars, fRPCInWarmup, sys,
                    fReset, fLoaded, strLoadError, pblocktree, evoDb,
                    constructed, openBlockTree, openEvo, openCoins,
                    deterministicMNManager, quorumSnapshotManager, llmqSystem,
                    g_chainstate, disk, fIndex, tip, nAttempts, nPrompts,
                    staleUse, wiped, importVars, shutdownVars >>

(* --------------- AppInitMain, step 7b: the load loop ------------------- *)

loopVars == << fReset, fLoaded, strLoadError, nAttempts, nPrompts >>

dbVars == << pblocktree, evoDb, constructed, openBlockTree, openEvo,
             openCoins, deterministicMNManager, quorumSnapshotManager,
             llmqSystem, g_chainstate, wiped, staleUse >>

chainVars == << disk, fIndex, tip, fReindex >>

\* what no statement of the load loop changes
outsideLoad == << args, cache, envVars, fRPCInWarmup, sys, importVars, shutdownVars >>

\* strLoadError = ...; break;
Break ==
    /\ strLoadError' = TRUE
    /\ Goto("AfterAttempt")

\* a use of database instance db by the current attempt
Use(db) == staleUse' = (staleUse \/ db # nAttempts)

\* while (!fLoaded && !ShutdownRequested()) { bool fReset = fReindex; ...
LoopCond ==
    /\ pc = "LoopCond"
    /\ IF ~fLoaded /\ ~ShutdownRequested
       THEN /\ fReset' = fReindex
            /\ strLoadError' = FALSE
            /\ nAttempts' = nAttempts + 1
            /\ Goto("NewChainState")
       ELSE /\ UNCHANGED << fReset, strLoadError, nAttempts >>
            /\ Goto("AfterLoop")
    /\ UNCHANGED << fLoaded, nPrompts, dbVars, chainVars, fRequestShutdown,
                    outsideLoad >>

\* g_chainstate = MakeUnique<CChainState>(); UnloadBlockIndex();
NewChainState ==
    /\ pc = "NewChainState"
    /\ g_chainstate' = [id |-> nAttempts, views |-> "none"]
    /\ openCoins' = {}
    /\ tip' = FALSE
    /\ Goto("ResetBlockTree")
    /\ UNCHANGED << loopVars, pblocktree, evoDb, constructed, openBlockTree,
                    openEvo, deterministicMNManager, quorumSnapshotManager,
                    llmqSystem, wiped, staleUse, disk, fIndex, fReindex,
                    fRequestShutdown, outsideLoad >>

\* pblocktree.reset() without effect
ResetBlockTree_Skipped ==
    /\ pc = "ResetBlockTree"
    /\ Goto("ConstructBlockTree")
    /\ UNCHANGED << loopVars, dbVars, chainVars, fRequestShutdown,
                    outsideLoad >>

\* pblocktree.reset();
ResetBlockTree ==
    /\ pc = "ResetBlockTree"
    /\ openBlockTree' = openBlockTree \ {pblocktree}
    /\ pblocktree' = 0
    /\ Goto("ConstructBlockTree")
    /\ UNCHANGED << loopVars, evoDb, constructed, openEvo, openCoins,
                    deterministicMNManager, quorumSnapshotManager, llmqSystem,
                    g_chainstate, wiped, staleUse, chainVars,
                    fRequestShutdown, outsideLoad >>

\* the block-tree store after new CBlockTreeDB(.., fWipe)
WipedBlockTree(d) ==
    [d EXCEPT !.populated = FALSE, !.flags = {}, !.reindexing = FALSE,
              !.genesis = "ok"]

\* a block-tree DB that -reindex-chainstate wipes too
ConstructBlockTree_WipesOnChainstate ==
    /\ pc = "ConstructBlockTree"
    /\ \E ok \in BOOLEAN :
         IF ok
         THEN /\ constructed' = nAttempts
              /\ openBlockTree' = openBlockTree \cup {nAttempts}
              /\ disk' = IF fReset \/ args.reindexChainstate
                         THEN WipedBlockTree(disk) ELSE disk
              /\ wiped' = IF fReset \/ args.reindexChainstate
                          THEN wiped \cup {<< "blocktree", nAttempts >>}
                          ELSE wiped
              /\ UNCHANGED strLoadError
              /\ Goto("AssignBlockTree")
         ELSE /\ UNCHANGED << constructed, openBlockTree, disk, wiped >>
              /\ Break
    /\ UNCHANGED << fReset, fLoaded, nAttempts, nPrompts, pblocktree, evoDb,
                    openEvo, openCoins, deterministicMNManager,
                    quorumSnapshotManager, llmqSystem, g_chainstate, staleUse,
                    fIndex, tip, fReindex, fRequestShutdown, outsideLoad >>

\* new CBlockTreeDB(nBlockTreeDBCache, false, fReset), which may throw
ConstructBlockTree ==
    /\ pc = "ConstructBlockTree"
    /\ \E ok \in BOOLEAN :
         IF ok
         THEN /\ constructed' = nAttempts
              /\ openBlockTree' = openBlockTree \cup {nAttempts}
              /\ disk' = IF fReset THEN WipedBlockTree(disk) ELSE disk
              /\ wiped' = IF fReset
                          THEN wiped \cup {<< "blocktree", nAttempts >>}
                          ELSE wiped
              /\ UNCHANGED strLoadError
              /\ Goto("AssignBlockTree")
         ELSE /\ UNCHANGED << constructed, openBlockTree, disk, wiped >>
              /\ Break
    /\ UNCHANGED << fReset, fLoaded, nAttempts, nPrompts, pblocktree, evoDb,
                    openEvo, openCoins, deterministicMNManager,
                    quorumSnapshotManager, llmqSystem, g_chainstate, staleUse,
                    fIndex, tip, fReindex, fRequestShutdown, outsideLoad >>

\* pblocktree.reset(<the new CBlockTreeDB>); llmq::DestroyLLMQSystem();
AssignBlockTree ==
    /\ pc = "AssignBlockTree"
    /\ openBlockTree' = openBlockTree \ {pblocktree}
    /\ pblocktree' = constructed
    /\ constructed' = 0
    /\ llmqSystem' = 0
    /\ Goto("ResetEvoDb")
    /\ UNCHANGED << loopVars, evoDb, openEvo, openCoins,
                    deterministicMNManager, quorumSnapshotManager,
                    g_chainstate, wiped, staleUse, chainVars,
                    fRequestShutdown, outsideLoad >>

\* evoDb.reset();
ResetEvoDb ==
    /\ pc = "ResetEvoDb"
    /\ openEvo' = openEvo \ {evoDb}
    /\ evoDb' = 0
    /\ Goto("ConstructEvoDb")
    /\ UNCHANGED << loopVars, pblocktree, constructed, openBlockTree,
                    openCoins, deterministicMNManager, quorumSnapshotManager,
                    llmqSystem, g_chainstate, wiped, staleUse, chainVars,
                    fRequestShutdown, outsideLoad >>

\* new CEvoDB(nEvoDbCache, false, fReset || fReindexChainState), may throw
ConstructEvoDb ==
    /\ pc = "ConstructEvoDb"
    /\ \E ok \in BOOLEAN :
         IF ok
         THEN /\ constructed' = nAttempts
              /\ openEvo' = openEvo \cup {nAttempts}
              /\ wiped' = IF fReset \/ args.reindexChainstate
                          THEN wiped \cup {<< "evo", nAttempts >>}
                          ELSE wiped
              /\ UNCHANGED strLoadError
              /\ Goto("AssignEvoDb")
         ELSE /\ UNCHANGED << constructed, openEvo, wiped >>
              /\ Break
    /\ UNCHANGED << fReset, fLoaded, nAttempts, nPrompts, pblocktree, evoDb,
                    openBlockTree, openCoins, deterministicMNManager,
                    quorumSnapshotManager, llmqSystem, g_chainstate, staleUse,
                    chainVars, fRequestShutdown, outsideLoad >>

\* evoDb.reset(<the new CEvoDB>);
AssignEvoDb ==
    /\ pc = "AssignEvoDb"
    /\ openEvo' = openEvo \ {evoDb}
    /\ evoDb' = constructed
    /\ constructed' = 0
    /\ Goto("NewManagers")
    /\ UNCHANGED << loopVars, pblocktree, openBlockTree, openCoins,
                    deterministicMNManager, quorumSnapshotManager, llmqSystem,
                    g_chainstate, wiped, staleUse, chainVars,
                    fRequestShutdown, outsideLoad >>

\* deterministicMNManager, quorumSnapshotManager and the LLMQ system are
\* replaced by new ones built on *evoDb
NewManagers ==
    /\ pc = "NewManagers"
    /\ deterministicMNManager' = evoDb
    /\ quorumSnapshotManager' = evoDb
    /\ llmqSystem' = evoDb
    /\ Goto("MarkReindexing")
    /\ UNCHANGED << loopVars, pblocktree, evoDb, constructed, openBlockTree,
                    openEvo, openCoins, g_chainstate, wiped, staleUse,
                    chainVars, fRequestShutdown, outsideLoad >>

\* if (fReset) pblocktree->WriteReindexing(true); if (ShutdownRequested()) break;
MarkReindexing ==
    /\ pc = "MarkReindexing"
    /\ IF fReset
       THEN disk' = [disk EXCEPT !.reindexing = TRUE] /\ Use(pblocktree)
       ELSE UNCHANGED << disk, staleUse >>
    /\ IF ShutdownRequested THEN Goto("AfterAttempt") ELSE Goto("LoadBlockIndex")
    /\ UNCHANGED << loopVars, pblocktree, evoDb, constructed, openBlockTree,
                    openEvo, openCoins, deterministicMNManager,
                    quorumSnapshotManager, llmqSystem, g_chainstate, wiped,
                    fIndex, tip, fReindex, fRequestShutdown, outsideLoad >>

\* the comparison without the test of -spentindex
FlagMismatch_NoSpentIndex ==
    \E ix \in Indexes \ {"spent"} : (ix \in fIndex) # (ix \in args.indexes)

\* the index flags of the command line differ from those LoadBlockIndex read
FlagMismatch == \E ix \in Indexes : (ix \in fIndex) # (ix \in args.indexes)

\* LoadBlockIndex(chainparams): reads the persisted flags and the persisted
\* reindexing marker (which sets fReindex) unless fReindex is already set; a
\* new or wiped block-tree store gets the requested flags
LoadBlockIndex ==
    /\ pc = "LoadBlockIndex"
    /\ Use(pblocktree)
    /\ \E ok \in BOOLEAN :
         IF ok
         THEN /\ fReindex' = (fReindex \/ disk.reindexing)
              /\ IF fReindex \/ ~disk.populated
                 THEN /\ fIndex' = args.indexes
                      /\ disk' = [disk EXCEPT !.flags = args.indexes]
                 ELSE /\ fIndex' = disk.flags
                      /\ UNCHANGED disk
              /\ UNCHANGED strLoadError
              /\ Goto("CheckGenesis")
         ELSE /\ UNCHANGED << fReindex, fIndex, disk >>
              /\ IF ShutdownRequested
                 THEN UNCHANGED strLoadError /\ Goto("AfterAttempt")
                 ELSE Break
    /\ UNCHANGED << fReset, fLoaded, nAttempts, nPrompts, pblocktree, evoDb,
                    constructed, openBlockTree, openEvo, openCoins,
                    deterministicMNManager, quorumSnapshotManager, llmqSystem,
                    g_chainstate, wiped, tip, fRequestShutdown, outsideLoad >>

\* !::BlockIndex().empty() && !LookupBlockIndex(hashGenesisBlock), and the
\* same for hashDevnetGenesisBlock
WrongGenesis == disk.populated /\ disk.genesis = "wrong"

\* a wrong genesis block handled like the failures that follow it
CheckGenesis_Breaks ==
    /\ pc = "CheckGenesis"
    /\ IF ~args.disablegovernance /\ ~args.txindex
       THEN UNCHANGED strLoadError /\ ReturnFalse("config")
       ELSE IF WrongGenesis THEN Break
       ELSE UNCHANGED strLoadError /\ Goto("CheckFlags")
    /\ UNCHANGED << fReset, fLoaded, nAttempts, nPrompts, dbVars, chainVars,
                    fRequestShutdown, outsideLoad >>

\* governance validation needs -txindex; the loaded index must hold the
\* genesis block of the network: both return InitError(...)
CheckGenesis ==
    /\ pc = "CheckGenesis"
    /\ IF ~args.disablegovernance /\ ~args.txindex
       THEN UNCHANGED strLoadError /\ ReturnFalse("config")
       ELSE IF WrongGenesis THEN UNCHANGED strLoadError /\ ReturnFalse("other")
       ELSE UNCHANGED strLoadError /\ Goto("CheckFlags")
    /\ UNCHANGED << fReset, fLoaded, nAttempts, nPrompts, dbVars, chainVars,
                    fRequestShutdown, outsideLoad >>

\* -addressindex, -timestampindex, -spentindex and the prune state must be
\* those of the data on disk
CheckFlags ==
    /\ pc = "CheckFlags"
    /\ \E prunedBefore \in (IF disk.populated THEN BOOLEAN ELSE {FALSE}) :
         IF FlagMismatch \/ prunedBefore
         THEN Break
         ELSE UNCHANGED strLoadError /\ Goto("LoadGenesis")
    /\ UNCHANGED << fReset, fLoaded, nAttempts, nPrompts, dbVars, chainVars,
                    fRequestShutdown, outsideLoad >>

\* if (!fReindex && !LoadGenesisBlock(chainparams)) ...
LoadGenesis ==
    /\ pc = "LoadGenesis"
    /\ IF fReindex
       THEN UNCHANGED << disk, strLoadError >> /\ Goto("InitCoins")
       ELSE \E ok \in BOOLEAN :
              IF ok
              THEN /\ disk' = [disk EXCEPT !.populated = TRUE]
                   /\ UNCHANGED strLoadError
                   /\ Goto("InitCoins")
              ELSE UNCHANGED disk /\ Break
    /\ UNCHANGED << fReset, fLoaded, nAttempts, nPrompts, dbVars, fIndex, tip,
                    fReindex, fRequestShutdown, outsideLoad >>

\* InitCoinsDB(should_wipe = fReset || fReindexChainState), Upgrade,
\* ReplayBlocks, InitCoinsCache, evoDb->CommitRootTransaction
InitCoins ==
    /\ pc = "InitCoins"
    /\ \E outcome \in {"ok", "throw", "upgrade", "commit"} :
         /\ IF outcome = "throw"
            THEN UNCHANGED << openCoins, g_chainstate, disk, wiped, staleUse >>
            ELSE /\ openCoins' = {g_chainstate.id}
                 /\ g_chainstate' =
                      [g_chainstate EXCEPT
                         !.views = IF outcome = "upgrade" THEN "db" ELSE "cache"]
                 /\ IF fReset \/ args.reindexChainstate
                    THEN /\ disk' = [disk EXCEPT !.coins = FALSE]
                         /\ wiped' = wiped \cup {<< "coins", nAttempts >>}
                    ELSE UNCHANGED << disk, wiped >>
                 /\ IF outcome = "upgrade" THEN UNCHANGED staleUse
                    ELSE Use(evoDb)
         /\ IF outcome = "ok"
            THEN UNCHANGED strLoadError /\ Goto("LoadTip")
            ELSE Break
    /\ UNCHANGED << fReset, fLoaded, nAttempts, nPrompts, pblocktree, evoDb,
                    constructed, openBlockTree, openEvo,
                    deterministicMNManager, quorumSnapshotManager, llmqSystem,
                    fIndex, tip, fReindex, fRequestShutdown, outsideLoad >>

\* is_coinsview_empty
IsCoinsViewEmpty == fReset \/ args.reindexChainstate \/ ~disk.coins

\* if (!is_coinsview_empty) { if (!LoadChainTip(chainparams)) { ...; break; }
\* assert(::ChainActive().Tip() != NULL); }
LoadTip ==
    /\ pc = "LoadTip"
    /\ IF IsCoinsViewEmpty
       THEN UNCHANGED << tip, strLoadError >> /\ Goto("UpgradeEvo")
       ELSE \E ok \in BOOLEAN :
              IF ok
              THEN tip' = TRUE /\ UNCHANGED strLoadError /\ Goto("UpgradeEvo")
              ELSE UNCHANGED tip /\ Break
    /\ UNCHANGED << fReset, fLoaded, nAttempts, nPrompts, dbVars, disk,
                    fIndex, fReindex, fRequestShutdown, outsideLoad >>

\* if (is_coinsview_empty && !evoDb->IsEmpty()) break;
\* if (!deterministicMNManager->UpgradeDBIfNeeded() || ...) break;
UpgradeEvo ==
    /\ pc = "UpgradeEvo"
    /\ Use(deterministicMNManager)
    /\ \E ok \in BOOLEAN :
         IF ok THEN UNCHANGED strLoadError /\ Goto("Verify") ELSE Break
    /\ UNCHANGED << fReset, fLoaded, nAttempts, nPrompts, pblocktree, evoDb,
                    constructed, openBlockTree, openEvo, openCoins,
                    deterministicMNManager, quorumSnapshotManager, llmqSystem,
                    g_chainstate, wiped, chainVars, fRequestShutdown,
                    outsideLoad >>

\* a test that also refuses a tip that is two hours ahead
TipFromFuture_AtTwoHours == tip /\ disk.tipAhead >= TwoHours

\* tip->nTime > GetAdjustedTime() + 2 * 60 * 60
TipFromFuture == tip /\ disk.tipAhead > TwoHours

\* a verification that is not skipped for an empty coin view
Verify_NeverSkipped ==
    /\ pc = "Verify"
    /\ IF TipFromFuture
       THEN UNCHANGED fLoaded /\ Break
       ELSE UNCHANGED << fLoaded, strLoadError >> /\ Goto("VerifyDB")
    /\ UNCHANGED << fReset, nAttempts, nPrompts, dbVars, chainVars,
                    fRequestShutdown, outsideLoad >>

\* if (!is_coinsview_empty) { ... if (tip && tip->nTime > GetAdjustedTime()
\* + 2 * 60 * 60) { ...; break; } <VerifyDB> } ... fLoaded = true;
Verify ==
    /\ pc = "Verify"
    /\ IF IsCoinsViewEmpty
       THEN fLoaded' = TRUE /\ UNCHANGED strLoadError /\ Goto("AfterAttempt")
       ELSE IF TipFromFuture
       THEN UNCHANGED fLoaded /\ Break
       ELSE UNCHANGED << fLoaded, strLoadError >> /\ Goto("VerifyDB")
    /\ UNCHANGED << fReset, nAttempts, nPrompts, dbVars, chainVars,
                    fRequestShutdown, outsideLoad >>

\* if (!CVerifyDB().VerifyDB(...)) { strLoadError = ...; break; } ...
\* fLoaded = true;
VerifyDB ==
    /\ pc = "VerifyDB"
    /\ \E ok \in BOOLEAN :
         IF ok
         THEN fLoaded' = TRUE /\ UNCHANGED strLoadError /\ Goto("AfterAttempt")
         ELSE UNCHANGED fLoaded /\ Break
    /\ UNCHANGED << fReset, nAttempts, nPrompts, dbVars, chainVars,
                    fRequestShutdown, outsideLoad >>

\* the question is asked after a failed attempt that was a reindex, too
AfterAttempt_AlwaysAsk ==
    /\ pc = "AfterAttempt"
    /\ IF ~fLoaded /\ ~ShutdownRequested
       THEN nPrompts' = nPrompts + 1 /\ Goto("Prompt")
       ELSE UNCHANGED nPrompts /\ Goto("LoopCond")
    /\ UNCHANGED << fReset, fLoaded, strLoadError, nAttempts, dbVars,
                    chainVars, fRequestShutdown, outsideLoad >>

\* if (!fLoaded && !ShutdownRequested()) { if (!fReset) <ask> else return
\* InitError(strLoadError); }
AfterAttempt ==
    /\ pc = "AfterAttempt"
    /\ IF ~fLoaded /\ ~ShutdownRequested
       THEN IF ~fReset
            THEN nPrompts' = nPrompts + 1 /\ Goto("Prompt")
            ELSE UNCHANGED nPrompts /\ ReturnFalse("other")
       ELSE UNCHANGED nPrompts /\ Goto("LoopCond")
    /\ UNCHANGED << fReset, fLoaded, strLoadError, nAttempts, dbVars,
                    chainVars, fRequestShutdown, outsideLoad >>

\* AbortShutdown()
AbortShutdown == fRequestShutdown' = FALSE

\* the answer to ThreadSafeQuestion: fReindex = true; AbortShutdown(); or
\* return false
Prompt ==
    /\ pc = "Prompt"
    /\ \E fRet \in BOOLEAN :
         IF fRet
         THEN /\ fReindex' = TRUE
              /\ AbortShutdown
              /\ Goto("LoopCond")
         ELSE /\ UNCHANGED << fReindex, fRequestShutdown >>
              /\ ReturnFalse("other")
    /\ UNCHANGED << loopVars, dbVars, disk, fIndex, tip, outsideLoad >>

\* if (ShutdownRequested()) return false; fFeeEstimatesInitialized = true;
AfterLoop ==
    /\ pc = "AfterLoop"
    /\ IF ShutdownRequested
       THEN UNCHANGED sys /\ ReturnFalse("other")
       ELSE /\ sys' = [sys EXCEPT !.fFeeEstimatesInitialized = TRUE]
            /\ Goto("Step8")
    /\ UNCHANGED << args, cache, fRequestShutdown, envVars, fRPCInWarmup, loadVars,
                    importVars, shutdownVars >>

(* ------------------- AppInitMain, steps 8 to 13 ------------------------ *)

\* what steps 8 to 13 of AppInitMain leave alone
afterLoadFrame == << args, cache, envVars, fRequestShutdown, loopVars, dbVars,
                     fIndex, fReindex, shutdownVars >>

\* step 8: g_txindex = MakeUnique<TxIndex>(...); g_txindex->Start();
StartIndexers ==
    /\ pc = "Step8"
    /\ sys' = [sys EXCEPT !.g_txindex =
                 IF args.txindex THEN "running" ELSE "null"]
    /\ Goto("Step9")
    /\ UNCHANGED << afterLoadFrame, fRPCInWarmup, disk, tip, importVars >>

\* step 9: client->load(); if (ShutdownRequested()) return false;
LoadWallets ==
    /\ pc = "Step9"
    /\ \E ok \in BOOLEAN :
         IF ~ok THEN ReturnFalse("other")
         ELSE IF ShutdownRequested THEN ReturnFalse("other")
         ELSE Goto("Step10")
    /\ UNCHANGED << afterLoadFrame, fRPCInWarmup, sys, disk, tip,
                    importVars >>

\* step 10: pruning; if (ShutdownRequested()) return false; step 10a:
\* -masternodeblsprivkey is checked
PruneAndMasternodeKey ==
    /\ pc = "Step10"
    /\ IF ShutdownRequested THEN ReturnFalse("other")
       ELSE \E keyOk \in BOOLEAN :
              IF keyOk THEN Goto("Step10b") ELSE ReturnFalse("config")
    /\ UNCHANGED << afterLoadFrame, fRPCInWarmup, sys, disk, tip,
                    importVars >>

\* fLoadCacheFiles that looks at the tip alone
LoadCacheFiles_IgnoresReindex == tip

\* bool fLoadCacheFiles
LoadCacheFiles == ~(fReindex \/ args.reindexChainstate) /\ tip

\* the snapshot files of step 10b, in the order it takes them
CacheFiles == << "mncache.dat", "governance.dat", "netfulfilled.dat" >>

\* the condition under which step 10b calls Load on the file, else Dump
CacheLoaded(f) ==
    LoadCacheFiles /\ (f = "governance.dat" => ~args.disablegovernance)

\* what step 10b has done to each file when the first n calls succeeded:
\* Load into the manager, or Dump of an empty manager over the file
CachesAfter(n) ==
    [f \in {CacheFiles[i] : i \in 1 .. Len(CacheFiles)} |->
       LET i == CHOOSE j \in 1 .. Len(CacheFiles) : CacheFiles[j] = f
       IN  IF i <= n THEN IF CacheLoaded(f) THEN "loaded" ELSE "cleared"
           ELSE IF i = n + 1
           THEN IF CacheLoaded(f) THEN "loadFailed" ELSE "clearFailed"
           ELSE "none"]

\* the objects the DoMaintenance callbacks of step 10c are bound to:
\* std::ref(*g_connman), std::ref(*deterministicMNManager)
MaintenanceObjects == {"g_connman", "deterministicMNManager"}

\* scheduler.scheduleEvery(...): the callbacks the scheduler holds, by the
\* object each is bound to
ScheduleEvery(s, objects) == [s EXCEPT !.scheduled = @ \cup objects]

\* step 10b: each cache is loaded or cleared, a failure of either returns
\* InitError; step 10c: the periodic tasks are scheduled and the LLMQ system
\* is started
LoadCaches ==
    /\ pc = "Step10b"
    /\ \E n \in 0 .. Len(CacheFiles) :
         /\ sys' = IF n = Len(CacheFiles)
                   THEN ScheduleEvery([sys EXCEPT !.caches = CachesAfter(n)],
                                      MaintenanceObjects)
                   ELSE [sys EXCEPT !.caches = CachesAfter(n)]
         /\ IF n = Len(CacheFiles) THEN Goto("Step11")
            ELSE ReturnFalse("other")
    /\ UNCHANGED << afterLoadFrame, fRPCInWarmup, disk, tip, importVars >>

\* step 11: CheckDiskSpace; fHaveGenesis is set if there is a tip, else
\* BlockNotifyGenesisWait is connected; ThreadImport is spawned
SpawnImport ==
    /\ pc = "Step11"
    /\ \E space \in BOOLEAN :
         IF space
         THEN /\ fHaveGenesis' = tip
              /\ imp' = [imp EXCEPT !.pc = "start"]
              /\ Goto("GenesisWait")
         ELSE /\ UNCHANGED << fHaveGenesis, imp >>
              /\ ReturnFalse("other")
    /\ UNCHANGED << afterLoadFrame, fRPCInWarmup, sys, disk, tip >>

\* a wait that only a notified tip ends
GenesisWait_NoShutdownTest ==
    /\ pc = "GenesisWait"
    /\ fHaveGenesis
    /\ Goto("AfterGenesisWait")
    /\ UNCHANGED << afterLoadFrame, fRPCInWarmup, sys, disk, tip,
                    importVars >>

\* while (!fHaveGenesis && !ShutdownRequested()) wait_for(lock, 500ms);
\* block_notify_genesis_wait_connection.disconnect();
GenesisWait ==
    /\ pc = "GenesisWait"
    /\ fHaveGenesis \/ ShutdownRequested
    /\ Goto("AfterGenesisWait")
    /\ UNCHANGED << afterLoadFrame, fRPCInWarmup, sys, disk, tip,
                    importVars >>

\* the genesis wait without the test of ShutdownRequested() after it
AfterGenesisWait_Unchecked ==
    /\ pc = "AfterGenesisWait"
    /\ Goto("Step12")
    /\ UNCHANGED << afterLoadFrame, fRPCInWarmup, sys, disk, tip,
                    importVars >>

\* if (ShutdownRequested()) return false;
AfterGenesisWait ==
    /\ pc = "AfterGenesisWait"
    /\ IF ShutdownRequested THEN ReturnFalse("other") ELSE Goto("Step12")
    /\ UNCHANGED << afterLoadFrame, fRPCInWarmup, sys, disk, tip,
                    importVars >>

\* step 12: -bind, -whitebind, -whitelist, -socketevents are checked and
\* g_connman->Start(scheduler, connOptions) is called
StartNode ==
    /\ pc = "Step12"
    /\ \E outcome \in {"ok", "option", "start"} :
         /\ sys' = IF outcome = "ok"
                   THEN [sys EXCEPT !.g_connman = "started"]
                   ELSE sys
         /\ IF outcome = "ok" THEN Goto("Step13")
            ELSE IF outcome = "option" THEN ReturnFalse("config")
            ELSE ReturnFalse("other")
    /\ UNCHANGED << afterLoadFrame, fRPCInWarmup, disk, tip, importVars >>

\* SetRPCWarmupFinished()
SetRPCWarmupFinished == fRPCInWarmup' = FALSE

\* step 13: SetRPCWarmupFinished(); ...
\* scheduler.scheduleEvery([]{ g_banman->DumpBanlist(); }, ...); return true;
Finish ==
    /\ pc = "Step13"
    /\ SetRPCWarmupFinished
    /\ sys' = ScheduleEvery(sys, {"g_banman"})
    /\ Goto("Running")
    /\ UNCHANGED << afterLoadFrame, disk, tip, importVars >>

(* --------------------------- ThreadImport ------------------------------ *)

\* what ThreadImport leaves alone
importFrame == << args, cache, pc, initError, envVars, fRPCInWarmup, loopVars,
                  dbVars, fIndex, shutdownVars >>

\* StartShutdown()
StartShutdown == fRequestShutdown' = TRUE

\* uiInterface.NotifyBlockTip: BlockNotifyGenesisWait sets fHaveGenesis for a
\* tip that is not null, while it is connected (from before the spawn of
\* ThreadImport to the end of the wait of the main thread)
BlockNotifyGenesisWait(pBlockIndex) ==
    fHaveGenesis' = (fHaveGenesis \/ (pBlockIndex /\ pc = "GenesisWait"))

\* CImportingNow imp; if (fReindex) { int nFile = 0; ...
ImportStart ==
    /\ imp.pc = "start"
    /\ imp' = [imp EXCEPT !.pc = IF fReindex THEN "reindexScan" ELSE "bootstrap",
                          !.nFile = 0]
    /\ UNCHANGED << importFrame, fRequestShutdown, sys, disk, tip, fReindex,
                    fHaveGenesis >>

\* one pass of while (true): no file nFile, or it cannot be opened: break,
\* WriteReindexing(false), fReindex = false, LoadGenesisBlock
ReindexScan ==
    /\ imp.pc = "reindexScan"
    /\ \E opens \in BOOLEAN :
         IF imp.nFile < disk.blockFiles /\ opens
         THEN /\ imp' = [imp EXCEPT !.pc = "reindexFile"]
              /\ UNCHANGED << disk, fReindex >>
         ELSE /\ imp' = [imp EXCEPT !.pc = "bootstrap",
                                    !.reindexEnd =
                                       IF imp.nFile < disk.blockFiles
                                       THEN "unopened" ELSE "missing",
                                    !.skipped =
                                       IF imp.nFile < disk.blockFiles
                                       THEN @ \cup {<< "blk", imp.nFile >>}
                                       ELSE @]
              /\ disk' = [disk EXCEPT !.reindexing = FALSE, !.populated = TRUE]
              /\ fReindex' = FALSE
    /\ UNCHANGED << importFrame, fRequestShutdown, sys, tip, fHaveGenesis >>

\* a replay that goes on with the file after the next one
ReindexFile_SkipsNext ==
    /\ imp.pc = "reindexFile"
    /\ \E connects \in BOOLEAN :
         /\ tip' = (tip \/ connects)
         /\ BlockNotifyGenesisWait(tip')
    /\ imp' = [imp EXCEPT
                 !.imported = Append(@, << "blk", imp.nFile >>),
                 !.pc = IF ShutdownRequested THEN "done" ELSE "reindexScan",
                 !.nFile = IF ShutdownRequested THEN @ ELSE @ + 2]
    /\ UNCHANGED << importFrame, fRequestShutdown, sys, disk, fReindex >>

\* a scan that clears the marker when a shutdown request ends it
ReindexFile_ClearsMarker ==
    /\ imp.pc = "reindexFile"
    /\ \E connects \in BOOLEAN :
         /\ tip' = (tip \/ connects)
         /\ BlockNotifyGenesisWait(tip')
    /\ imp' = [imp EXCEPT
                 !.imported = Append(@, << "blk", imp.nFile >>),
                 !.pc = IF ShutdownRequested THEN "done" ELSE "reindexScan",
                 !.nFile = IF ShutdownRequested THEN @ ELSE @ + 1]
    /\ disk' = IF ShutdownRequested THEN [disk EXCEPT !.reindexing = FALSE]
               ELSE disk
    /\ UNCHANGED << importFrame, fRequestShutdown, sys, fReindex >>

\* LoadExternalBlockFile(chainparams, file, &pos);
\* if (ShutdownRequested()) return; nFile++;
ReindexFile ==
    /\ imp.pc = "reindexFile"
    /\ \E connects \in BOOLEAN :
         /\ tip' = (tip \/ connects)
         /\ BlockNotifyGenesisWait(tip')
    /\ imp' = [imp EXCEPT
                 !.imported = Append(@, << "blk", imp.nFile >>),
                 !.pc = IF ShutdownRequested THEN "done" ELSE "reindexScan",
                 !.nFile = IF ShutdownRequested THEN @ ELSE @ + 1]
    /\ UNCHANGED << importFrame, fRequestShutdown, sys, disk, fReindex >>

\* if (fs::exists(pathBootstrap)) { FILE *file = fopen(..); if (file) ...
Bootstrap ==
    /\ imp.pc = "bootstrap"
    /\ \E opens \in BOOLEAN :
         imp' = [imp EXCEPT !.pc = IF disk.bootstrap = "present" /\ opens
                                   THEN "bootstrapFile" ELSE "loadblock",
                            !.i = 0,
                            !.skipped = IF disk.bootstrap = "present" /\ ~opens
                                        THEN @ \cup {<< "bootstrap", 0 >>}
                                        ELSE @]
    /\ UNCHANGED << importFrame, fRequestShutdown, sys, disk, tip, fReindex,
                    fHaveGenesis >>

\* LoadExternalBlockFile(chainparams, file); RenameOver(bootstrap.dat,
\* bootstrap.dat.old); the replay read the whole file or stopped early (a
\* shutdown request, a damaged file), which its result, not used, tells
BootstrapFile ==
    /\ imp.pc = "bootstrapFile"
    /\ \E connects \in BOOLEAN :
         /\ tip' = (tip \/ connects)
         /\ BlockNotifyGenesisWait(tip')
    /\ disk' = [disk EXCEPT !.bootstrap = "old"]
    /\ \E complete \in BOOLEAN :
         imp' = [imp EXCEPT !.imported = Append(@, << "bootstrap", 0 >>),
                            !.pc = "loadblock",
                            !.replayed = IF complete THEN "complete"
                                         ELSE "incomplete"]
    /\ UNCHANGED << importFrame, fRequestShutdown, sys, fReindex >>

\* a loop over the -loadblock files that a file it cannot open ends, and
\* ThreadImport with it
LoadBlock_ReturnsOnFailure ==
    /\ imp.pc = "loadblock"
    /\ \E opens \in BOOLEAN :
         imp' = IF imp.i >= args.nLoadBlock
                THEN [imp EXCEPT !.pc = "activate"]
                ELSE IF opens THEN [imp EXCEPT !.pc = "loadblockFile"]
                ELSE [imp EXCEPT !.pc = "done",
                                 !.skipped = @ \cup {<< "loadblock", imp.i >>}]
    /\ UNCHANGED << importFrame, fRequestShutdown, sys, disk, tip, fReindex,
                    fHaveGenesis >>

\* for (const fs::path& path : vImportFiles) { FILE *file = fopen(..); ...
LoadBlock ==
    /\ imp.pc = "loadblock"
    /\ \E opens \in BOOLEAN :
         imp' = IF imp.i >= args.nLoadBlock
                THEN [imp EXCEPT !.pc = "activate"]
                ELSE IF opens THEN [imp EXCEPT !.pc = "loadblockFile"]
                ELSE [imp EXCEPT !.i = @ + 1,
                                 !.skipped = @ \cup {<< "loadblock", imp.i >>}]
    /\ UNCHANGED << importFrame, fRequestShutdown, sys, disk, tip, fReindex,
                    fHaveGenesis >>

\* LoadExternalBlockFile(chainparams, file); if (ShutdownRequested()) return;
LoadBlockFile ==
    /\ imp.pc = "loadblockFile"
    /\ \E connects \in BOOLEAN :
         /\ tip' = (tip \/ connects)
         /\ BlockNotifyGenesisWait(tip')
    /\ imp' = [imp EXCEPT
                 !.imported = Append(@, << "loadblock", imp.i >>),
                 !.pc = IF ShutdownRequested THEN "done" ELSE "loadblock",
                 !.i = IF ShutdownRequested THEN @ ELSE @ + 1]
    /\ UNCHANGED << importFrame, fRequestShutdown, sys, disk, fReindex >>

\* an import that goes on to the post-import steps whatever ActivateBestChain
\* returned
Activate_IgnoresFailure ==
    /\ imp.pc = "activate"
    /\ \E ok \in BOOLEAN :
         /\ tip' = (tip \/ ok)
         /\ BlockNotifyGenesisWait(tip')
         /\ imp' = [imp EXCEPT !.pc = "postImport", !.activated = @ + 1]
         /\ UNCHANGED fRequestShutdown
    /\ UNCHANGED << importFrame, sys, disk, fReindex >>

\* if (!ActivateBestChain(state, chainparams)) { StartShutdown(); return; }
\* if (-stopafterblockimport) { StartShutdown(); return; }
Activate ==
    /\ imp.pc = "activate"
    /\ \E ok \in BOOLEAN, stopAfter \in BOOLEAN :
         /\ tip' = (tip \/ ok)
         /\ BlockNotifyGenesisWait(tip')
         /\ IF ok /\ ~stopAfter
            THEN /\ imp' = [imp EXCEPT !.pc = "postImport", !.activated = @ + 1]
                 /\ UNCHANGED fRequestShutdown
            ELSE /\ imp' = [imp EXCEPT !.pc = "done", !.activated = @ + 1]
                 /\ StartShutdown
    /\ UNCHANGED << importFrame, sys, disk, fReindex >>

\* a ThreadImport that ends with ::mempool.SetIsLoaded(true)
PostImport_AlwaysLoaded ==
    /\ imp.pc = "postImport"
    /\ sys' = [sys EXCEPT !.mempoolLoaded = TRUE]
    /\ imp' = [imp EXCEPT !.pc = "done"]
    /\ UNCHANGED << importFrame, fRequestShutdown, disk, tip, fReindex,
                    fHaveGenesis >>

\* InitializeCurrentBlockTip, the masternode UTXO warm-up, LoadMempool,
\* ::mempool.SetIsLoaded(!ShutdownRequested());
PostImport ==
    /\ imp.pc = "postImport"
    /\ sys' = [sys EXCEPT !.mempoolLoaded = ~ShutdownRequested]
    /\ imp' = [imp EXCEPT !.pc = "done"]
    /\ UNCHANGED << importFrame, fRequestShutdown, disk, tip, fReindex,
                    fHaveGenesis >>

(* ---------------- the caller of AppInitMain and Shutdown --------------- *)

\* what the steps of the caller leave alone
callerFrame == << args, cache, fRequestShutdown, fRPCInWarmup, sys, loadVars,
                  importVars, shutdownVars, initError >>

\* AppInitMain returned false: Interrupt(); Shutdown(interfaces);
ShutdownAfterFailure ==
    /\ pc = "InitFailed"
    /\ pc' = "Shutdown"
    /\ UNCHANGED << callerFrame, envVars >>

\* AppInitMain returned true: WaitForShutdown(); Shutdown(interfaces);
WaitForShutdown ==
    /\ pc = "Running"
    /\ ShutdownRequested
    /\ pc' = "Shutdown"
    /\ UNCHANGED << callerFrame, envVars >>

\* Shutdown part 2, after PrepareShutdown returned; the process exits, which
\* releases the data-directory lock
ShutdownPart2 ==
    /\ pc = "Shutdown"
    /\ sd[MainThread].pc = "returned"
    /\ pc' = "Exited"
    /\ dirLock' = IF dirLock = "self" THEN "free" ELSE dirLock
    /\ UNCHANGED << callerFrame, pidFile >>

(* --------------------------- PrepareShutdown --------------------------- *)

\* what PrepareShutdown leaves alone
teardownFrame == << args, cache, pc, initError, fRequestShutdown, dirLock,
                    fRPCInWarmup, loopVars, fReindex, fIndex, tip, disk,
                    constructed, wiped, staleUse, importVars >>

\* the callers of PrepareShutdown: the main thread through Shutdown(), other
\* threads (a restart request) while the node runs or shuts down
MayCall(t) ==
    IF t = MainThread
    THEN pc = "Shutdown"
    ELSE /\ pc \in {"Running", "Shutdown"}
         \* the other callers are interchangeable: number them as they call
         /\ t > 1 => sd[t - 1].pc # "idle"

\* caller t is at step `at` of the teardown
At(t, at) == pc # "Exited" /\ sd[t].pc = at

Step(t, next) == sd' = [sd EXCEPT ![t].pc = next]

Did(ops) == hist' = [hist EXCEPT !.work = @ \cup ops]

\* the operation op, if it had something to act on
If(cond, op) == IF cond THEN {op} ELSE {}

\* the objects whose state the teardown decides
TeardownState ==
    [sys |-> sys, pblocktree |-> pblocktree, evoDb |-> evoDb,
     openBlockTree |-> openBlockTree, openEvo |-> openEvo,
     openCoins |-> openCoins, views |-> g_chainstate.views,
     deterministicMNManager |-> deterministicMNManager,
     quorumSnapshotManager |-> quorumSnapshotManager,
     llmqSystem |-> llmqSystem]

\* a lock that every caller gets
TryLock_Always(t) == TRUE

\* TRY_LOCK(cs_Shutdown, lockShutdown)
TryLock(t) == cs_Shutdown = -1

\* RestartRequested(): a restart is what makes a thread other than the main
\* thread call PrepareShutdown
RestartRequested == \E t \in Callers \ {MainThread} : sd[t].pc # "idle"

\* Shutdown part 1: if (!RestartRequested()) PrepareShutdown(interfaces); and
\* the call of PrepareShutdown by another thread;
\* TRY_LOCK(cs_Shutdown, lockShutdown); if (!lockShutdown) return;
Enter(t) ==
    /\ At(t, "idle")
    /\ MayCall(t)
    /\ IF ~(t = MainThread /\ RestartRequested) /\ TryLock(t)
       THEN /\ cs_Shutdown' = t
            /\ Step(t, "StopServers")
            /\ hist' = [hist EXCEPT !.teardowns = @ + 1, !.work = {}]
       ELSE /\ Step(t, "returned")
            /\ UNCHANGED << cs_Shutdown, hist >>
    /\ UNCHANGED << teardownFrame, pidFile, sys, pblocktree, evoDb,
                    openBlockTree, openEvo, openCoins,
                    deterministicMNManager, quorumSnapshotManager,
                    llmqSystem, g_chainstate >>

\* the database objects, which most steps leave alone
dbObjects == << pblocktree, evoDb, openBlockTree, openEvo, openCoins,
                deterministicMNManager, quorumSnapshotManager, llmqSystem,
                g_chainstate >>

\* StopHTTPRPC(); StopREST(); StopRPC(); StopHTTPServer(); StopLLMQSystem();
\* bool fRPCInWarmup = RPCIsInWarmup(&statusmessage); client->flush();
StopServers(t) ==
    /\ At(t, "StopServers")
    /\ sys' = [sys EXCEPT !.rpcServer = IF @ = "on" THEN "stopped" ELSE @]
    /\ sd' = [sd EXCEPT ![t].pc = "StopNet", ![t].fRPCInWarmup = fRPCInWarmup]
    /\ Did(If(sys.rpcServer = "on", "stop rpc"))
    /\ UNCHANGED << teardownFrame, pidFile, cs_Shutdown, dbObjects >>

\* a teardown that leaves peerLogic registered until the listeners are
\* unregistered all together
UnregisterPeerLogic_Late(s) == s

\* if (peerLogic) UnregisterValidationInterface(peerLogic.get());
UnregisterPeerLogic(s) ==
    IF s.peerLogic THEN [s EXCEPT !.peerLogicRegistered = FALSE] ELSE s

\* g_connman->Stop() without the test of g_connman
StopConnman_Unguarded(s) ==
    [s EXCEPT !.g_connman = "stopped", !.nullDeref = @ \/ s.g_connman = "null",
              !.misordered = @ \/ s.peerLogicRegistered]

\* if (g_connman) g_connman->Stop(); misordered records a connection manager
\* stopped under a message processor that still listens
StopConnman(s) ==
    IF s.g_connman # "null"
    THEN [s EXCEPT !.g_connman = "stopped",
                   !.misordered = @ \/ s.peerLogicRegistered]
    ELSE s

\* a teardown that leaves the tx index running
StopTxIndex_Skipped(s) == s

\* if (g_txindex) g_txindex->Stop();
StopTxIndex(s) ==
    IF s.g_txindex # "null" THEN [s EXCEPT !.g_txindex = "stopped"] ELSE s

\* peerLogic is unregistered, g_connman and g_txindex are stopped
StopNet(t) ==
    /\ At(t, "StopNet")
    /\ sys' = StopTxIndex(StopConnman(UnregisterPeerLogic(sys)))
    /\ Step(t, "StopScheduler")
    /\ Did(If(sys.g_connman \in {"created", "started"}, "stop g_connman"))
    /\ UNCHANGED << teardownFrame, pidFile, cs_Shutdown, dbObjects >>

\* a teardown that leaves the scheduler thread running
StopScheduler_LeftRunning(t) ==
    /\ At(t, "StopScheduler")
    /\ Step(t, "JoinThreads")
    /\ UNCHANGED << teardownFrame, pidFile, cs_Shutdown, dbObjects, sys, hist >>

\* scheduler.stop(); threadGroup.interrupt_all();
StopScheduler(t) ==
    /\ At(t, "StopScheduler")
    /\ sys' = [sys EXCEPT !.scheduler = IF @ = "running" THEN "stopped" ELSE @]
    /\ Step(t, "JoinThreads")
    /\ Did(If(sys.scheduler = "running", "stop scheduler"))
    /\ UNCHANGED << teardownFrame, pidFile, cs_Shutdown, dbObjects >>

\* threadGroup.join_all(); StopScriptCheckWorkerThreads();
\* GetMainSignals().FlushBackgroundCallbacks();
JoinThreads(t) ==
    /\ At(t, "JoinThreads")
    /\ imp.pc \in {"notspawned", "done"}
    /\ sys' = [sys EXCEPT !.scriptWorkers = FALSE]
    /\ Step(t, "DumpCaches")
    /\ Did(If(sys.scriptWorkers, "stop workers"))
    /\ UNCHANGED << teardownFrame, pidFile, cs_Shutdown, dbObjects >>

\* the snapshot files without the test of fRPCInWarmup
CachesToDump_Always(inWarmup) ==
    {"mncache.dat", "netfulfilled.dat", "sporks.dat"} \cup
    (IF args.disablegovernance THEN {} ELSE {"governance.dat"})

\* the snapshot files of if (!fRPCInWarmup) { ... Dump ... }
CachesToDump(inWarmup) ==
    IF inWarmup THEN {}
    ELSE {"mncache.dat", "netfulfilled.dat", "sporks.dat"} \cup
         (IF args.disablegovernance THEN {} ELSE {"governance.dat"})

\* if (!fRPCInWarmup) { flatdb1.Dump(mmetaman); ... }
DumpCaches(t) ==
    /\ At(t, "DumpCaches")
    /\ hist' = [hist EXCEPT
                  !.dumps = [f \in SnapshotFiles |->
                               IF f \in CachesToDump(sd[t].fRPCInWarmup)
                               THEN @[f] + 1 ELSE @[f]]]
    /\ Step(t, "DestroyNet")
    /\ UNCHANGED << teardownFrame, pidFile, cs_Shutdown, sys, dbObjects >>

\* the threads that use peerLogic, g_connman and g_banman run
NetThreadsRun(s) ==
    s.g_connman \in {"created", "started"} \/ s.scheduler = "running"

\* peerLogic.reset(); misordered records an object destroyed while a thread
\* or another object still uses it
ResetPeerLogic(s) ==
    [s EXCEPT !.peerLogic = FALSE,
              !.misordered = @ \/ (s.peerLogic /\ (NetThreadsRun(s) \/
                                                   s.peerLogicRegistered))]

\* g_connman.reset(); peerLogic holds a pointer to the connection manager
ResetConnman(s) ==
    [s EXCEPT !.g_connman = "null",
              !.misordered = @ \/ (s.g_connman # "null" /\
                                     (NetThreadsRun(s) \/ s.peerLogic))]

\* g_banman.reset(); peerLogic and g_connman hold pointers to the ban manager
ResetBanman(s) ==
    [s EXCEPT !.g_banman = FALSE,
              !.misordered = @ \/ (s.g_banman /\
                                     (NetThreadsRun(s) \/ s.peerLogic \/
                                      s.g_connman # "null"))]

\* g_txindex.reset();
ResetTxIndex(s) == [s EXCEPT !.g_txindex = "null"]

\* peerLogic.reset(); g_connman.reset(); g_banman.reset(); g_txindex.reset();
DestroyNet(t) ==
    /\ At(t, "DestroyNet")
    /\ sys' = ResetTxIndex(ResetBanman(ResetConnman(ResetPeerLogic(sys))))
    /\ Step(t, "DumpMempool")
    /\ Did(If(sys.peerLogic, "destroy peerLogic") \cup
           If(sys.g_connman # "null", "destroy g_connman") \cup
           If(sys.g_banman, "destroy g_banman") \cup
           If(sys.g_txindex # "null", "destroy g_txindex"))
    /\ UNCHANGED << teardownFrame, pidFile, cs_Shutdown, dbObjects >>

\* if (::mempool.IsLoaded() && -persistmempool) DumpMempool(::mempool);
MempoolDumped == sys.mempoolLoaded /\ args.persistmempool

\* if (fFeeEstimatesInitialized) is absent
FeeEstimatesFlushed_Unguarded == TRUE

\* if (fFeeEstimatesInitialized) { ... }
FeeEstimatesFlushed == sys.fFeeEstimatesInitialized

\* the mempool is dumped if it was loaded; the fee estimates are flushed and
\* written if they were initialized, and then marked uninitialized
DumpMempoolAndFees(t) ==
    /\ At(t, "DumpMempool")
    /\ sys' = IF FeeEstimatesFlushed
              THEN [sys EXCEPT !.fFeeEstimatesInitialized = FALSE]
              ELSE sys
    /\ hist' = [hist EXCEPT
                  !.mempoolDumps = IF MempoolDumped THEN @ + 1 ELSE @,
                  !.feeWrites = IF FeeEstimatesFlushed THEN @ + 1 ELSE @,
                  !.work = @ \cup If(FeeEstimatesFlushed, "flush fee estimates")]
    /\ Step(t, "FlushChainState")
    /\ UNCHANGED << teardownFrame, pidFile, cs_Shutdown, dbObjects >>

\* a flush that does not test the chain state and its views
CanFlush_Untested == TRUE

\* g_chainstate && g_chainstate->CanFlushToDisk()
CanFlush == g_chainstate.id # 0 /\ g_chainstate.views = "cache"

\* { LOCK(cs_main); if (g_chainstate && CanFlushToDisk()) ForceFlushStateToDisk(); }
\* GetMainSignals().FlushBackgroundCallbacks();
FlushChainState(t) ==
    /\ At(t, "FlushChainState")
    /\ hist' = [hist EXCEPT
                  !.flushes = IF CanFlush THEN @ + 1 ELSE @,
                  !.work = @ \cup If(CanFlush, "flush chain state")]
    /\ Step(t, "CloseChainState")
    /\ UNCHANGED << teardownFrame, pidFile, cs_Shutdown, sys, dbObjects >>

\* LOCK(cs_main); if (g_chainstate && CanFlushToDisk()) {
\* ForceFlushStateToDisk(); ResetCoinsViews(); }
CloseChainState(t) ==
    /\ At(t, "CloseChainState")
    /\ IF CanFlush
       THEN /\ g_chainstate' = [g_chainstate EXCEPT !.views = "none"]
            /\ openCoins' = {}
       ELSE UNCHANGED << g_chainstate, openCoins >>
    /\ hist' = [hist EXCEPT
                  !.flushes = IF CanFlush THEN @ + 1 ELSE @,
                  !.work = @ \cup If(CanFlush, "flush chain state")
                              \cup If(CanFlush, "close coin views")]
    /\ Step(t, "DestroyManagers")
    /\ UNCHANGED << teardownFrame, pidFile, cs_Shutdown, sys, pblocktree,
                    evoDb, openBlockTree, openEvo, deterministicMNManager,
                    quorumSnapshotManager, llmqSystem >>

\* pblocktree.reset(); llmq::DestroyLLMQSystem();
\* llmq::quorumSnapshotManager.reset(); deterministicMNManager.reset();
DestroyManagers(t) ==
    /\ At(t, "DestroyManagers")
    /\ openBlockTree' = openBlockTree \ {pblocktree}
    /\ pblocktree' = 0
    /\ llmqSystem' = 0
    /\ quorumSnapshotManager' = 0
    /\ deterministicMNManager' = 0
    /\ Did(If(pblocktree # 0, "destroy pblocktree") \cup
           If(llmqSystem # 0, "destroy llmq") \cup
           If(quorumSnapshotManager # 0, "destroy quorumSnapshotManager") \cup
           If(deterministicMNManager # 0, "destroy deterministicMNManager"))
    /\ Step(t, "DestroyEvoDb")
    /\ UNCHANGED << teardownFrame, pidFile, cs_Shutdown, sys, evoDb, openEvo,
                    openCoins, g_chainstate >>

\* evoDb.reset();
DestroyEvoDb(t) ==
    /\ At(t, "DestroyEvoDb")
    /\ openEvo' = openEvo \ {evoDb}
    /\ evoDb' = 0
    /\ Did(If(evoDb # 0, "destroy evoDb"))
    /\ Step(t, "StopClients")
    /\ UNCHANGED << teardownFrame, pidFile, cs_Shutdown, sys, pblocktree,
                    openBlockTree, openCoins, deterministicMNManager,
                    quorumSnapshotManager, llmqSystem, g_chainstate >>

\* client->stop(); if (pdsNotificationInterface) { Unregister...; delete
\* pdsNotificationInterface; pdsNotificationInterface = nullptr; }
StopClients(t) ==
    /\ At(t, "StopClients")
    /\ sys' = [sys EXCEPT !.pdsNotificationInterface = FALSE]
    /\ Did(If(sys.pdsNotificationInterface, "destroy pdsNotificationInterface"))
    /\ Step(t, "RemovePid")
    /\ UNCHANGED << teardownFrame, pidFile, cs_Shutdown, dbObjects >>

\* if (!fs::remove(GetPidFile())) LogPrintf(...);
RemovePidFile(t) ==
    /\ At(t, "RemovePid")
    /\ pidFile' = "absent"
    /\ hist' = [hist EXCEPT
                  !.removedPid = IF pidFile = "absent" THEN @ ELSE pidFile]
    /\ Step(t, "Unregister")
    /\ UNCHANGED << teardownFrame, cs_Shutdown, sys, dbObjects >>

\* chain_clients.clear(); UnregisterAllValidationInterfaces(); ...; the
\* function returns, which releases cs_Shutdown
Unregister(t) ==
    /\ At(t, "Unregister")
    /\ sys' = [sys EXCEPT !.peerLogicRegistered = FALSE]
    /\ cs_Shutdown' = -1
    /\ Step(t, "returned")
    /\ UNCHANGED << teardownFrame, pidFile, dbObjects >>
    /\ hist' = [hist EXCEPT
                  !.first = IF @ = << >> THEN << TeardownState' >> ELSE @]

(* --------------------------- specification ----------------------------- *)

Next ==
    \/ HandleSIGTERM
    \/ OtherInstanceStarts
    \/ OtherInstanceExits
    \/ AppInitSanityChecks
    \/ AppInitLockDataDirectory
    \/ CreatePidFile
    \/ StartWorkersAndScheduler
    \/ StartRPCServer
    \/ VerifyWallets
    \/ CreateNetworkObjects
    \/ CheckNetworkOptions
    \/ LoadSporks
    \/ LoopCond
    \/ NewChainState
    \/ ResetBlockTree
    \/ ConstructBlockTree
    \/ AssignBlockTree
    \/ ResetEvoDb
    \/ ConstructEvoDb
    \/ AssignEvoDb
    \/ NewManagers
    \/ MarkReindexing
    \/ LoadBlockIndex
    \/ CheckGenesis
    \/ CheckFlags
    \/ LoadGenesis
    \/ InitCoins
    \/ LoadTip
    \/ UpgradeEvo
    \/ Verify
    \/ VerifyDB
    \/ AfterAttempt
    \/ Prompt
    \/ AfterLoop
    \/ StartIndexers
    \/ LoadWallets
    \/ PruneAndMasternodeKey
    \/ LoadCaches
    \/ SpawnImport
    \/ GenesisWait
    \/ AfterGenesisWait
    \/ StartNode
    \/ Finish
    \/ ImportStart
    \/ ReindexScan
    \/ ReindexFile
    \/ Bootstrap
    \/ BootstrapFile
    \/ LoadBlock
    \/ LoadBlockFile
    \/ Activate
    \/ PostImport
    \/ ShutdownAfterFailure
    \/ WaitForShutdown
    \/ ShutdownPart2
    \/ \E t \in Callers : Enter(t)
    \/ \E t \in Callers : StopServers(t)
    \/ \E t \in Callers : StopNet(t)
    \/ \E t \in Callers : StopScheduler(t)
    \/ \E t \in Callers : JoinThreads(t)
    \/ \E t \in Callers : DumpCaches(t)
    \/ \E t \in Callers : DestroyNet(t)
    \/ \E t \in Callers : DumpMempoolAndFees(t)
    \/ \E t \in Callers : FlushChainState(t)
    \/ \E t \in Callers : CloseChainState(t)
    \/ \E t \in Callers : DestroyManagers(t)
    \/ \E t \in Callers : DestroyEvoDb(t)
    \/ \E t \in Callers : StopClients(t)
    \/ \E t \in Callers : RemovePidFile(t)
    \/ \E t \in Callers : Unregister(t)

Spec == Init /\ [][Next]_vars

SpecFlags == InitFlags /\ [][Next]_vars

\* the bring-up of the main thread as far as the cache sizes of step 7b
NextCache ==
    \/ AppInitSanityChecks
    \/ AppInitLockDataDirectory
    \/ CreatePidFile
    \/ StartWorkersAndScheduler
    \/ StartRPCServer
    \/ VerifyWallets
    \/ CreateNetworkObjects
    \/ CheckNetworkOptions
    \/ LoadSporks

SpecCache == InitCache /\ [][NextCache]_vars

\* the bring-up of the main thread, the signal handler and ThreadImport, up
\* to the return of AppInitMain
NextBringUp ==
    \/ HandleSIGTERM
    \/ AppInitSanityChecks
    \/ AppInitLockDataDirectory
    \/ CreatePidFile
    \/ StartWorkersAndScheduler
    \/ StartRPCServer
    \/ VerifyWallets
    \/ CreateNetworkObjects
    \/ CheckNetworkOptions
    \/ LoadSporks
    \/ LoopCond
    \/ NewChainState
    \/ ResetBlockTree
    \/ ConstructBlockTree
    \/ AssignBlockTree
    \/ ResetEvoDb
    \/ ConstructEvoDb
    \/ AssignEvoDb
    \/ NewManagers
    \/ MarkReindexing
    \/ LoadBlockIndex
    \/ CheckGenesis
    \/ CheckFlags
    \/ LoadGenesis
    \/ InitCoins
    \/ LoadTip
    \/ UpgradeEvo
    \/ Verify
    \/ VerifyDB
    \/ AfterAttempt
    \/ Prompt
    \/ AfterLoop
    \/ StartIndexers
    \/ LoadWallets
    \/ PruneAndMasternodeKey
    \/ LoadCaches
    \/ SpawnImport
    \/ GenesisWait
    \/ AfterGenesisWait
    \/ StartNode
    \/ Finish
    \/ ImportStart
    \/ ReindexScan
    \/ ReindexFile
    \/ Bootstrap
    \/ BootstrapFile
    \/ LoadBlock
    \/ LoadBlockFile
    \/ Activate
    \/ PostImport

SpecBringUp == InitBringUp /\ [][NextBringUp]_vars

(* ------------------------------ properties ----------------------------- *)

\* the steps of a load attempt after its objects were created
LoadingSteps == {"MarkReindexing", "LoadBlockIndex", "CheckGenesis",
                 "CheckFlags", "LoadGenesis", "InitCoins", "LoadTip",
                 "UpgradeEvo", "Verify", "VerifyDB"}

\* the callers that are executing the teardown steps
InTeardown == { t \in Callers : sd[t].pc \notin {"idle", "returned"} }

\* C1: in the load loop every attempt destroys the block-tree DB, the evo DB
\* and the LLMQ system of the previous attempt before it creates its own:
\* a new block-tree DB (evo DB) is constructed only when none is open, so two
\* instances are never open at once, the objects an attempt works with are
\* those it created, and no attempt uses an object of an earlier attempt
C1_FreshHandlesPerAttempt ==
    /\ Cardinality(openBlockTree) <= 1
    /\ Cardinality(openEvo) <= 1
    /\ Cardinality(openCoins) <= 1
    /\ ~staleUse
    /\ pc = "ConstructBlockTree" => pblocktree = 0 /\ openBlockTree = {}
    /\ pc = "ConstructEvoDb" => evoDb = 0 /\ openEvo = {} /\ llmqSystem = 0
    /\ pc \in LoadingSteps =>
         /\ pblocktree = nAttempts /\ openBlockTree = {nAttempts}
         /\ evoDb = nAttempts /\ openEvo = {nAttempts}
         /\ deterministicMNManager = nAttempts
         /\ quorumSnapshotManager = nAttempts
         /\ llmqSystem = nAttempts
         /\ g_chainstate.id = nAttempts
         /\ openCoins \subseteq {nAttempts}

\* the retry after a confirmed rebuild works on objects of its own
C1_Witness ==
    /\ pc = "Verify"
    /\ nAttempts = 2
    /\ pblocktree = 2 /\ evoDb = 2 /\ openCoins = {2}

\* the place of a step in a load attempt; LoopCond closes the attempt
LoopPlace ==
    [s \in {"NewChainState", "ResetBlockTree", "ConstructBlockTree",
            "AssignBlockTree", "ResetEvoDb", "ConstructEvoDb", "AssignEvoDb",
            "NewManagers", "AfterAttempt", "Prompt", "LoopCond"}
           \cup LoadingSteps |->
       CASE s = "NewChainState" -> 1
         [] s = "ResetBlockTree" -> 2
         [] s = "ConstructBlockTree" -> 3
         [] s = "AssignBlockTree" -> 4
         [] s = "ResetEvoDb" -> 5
         [] s = "ConstructEvoDb" -> 6
         [] s = "AssignEvoDb" -> 7
         [] s = "NewManagers" -> 8
         [] s = "MarkReindexing" -> 9
         [] s = "LoadBlockIndex" -> 10
         [] s = "CheckGenesis" -> 11
         [] s = "CheckFlags" -> 12
         [] s = "LoadGenesis" -> 13
         [] s = "InitCoins" -> 14
         [] s = "LoadTip" -> 15
         [] s = "UpgradeEvo" -> 16
         [] s = "Verify" -> 17
         [] s = "VerifyDB" -> 18
         [] s = "AfterAttempt" -> 19
         [] s = "Prompt" -> 20
         [] s = "LoopCond" -> 21]

\* how far the load loop has come: it can only grow, and is bounded
LoopRank == nAttempts * 22 + LoopPlace[pc]

\* C2: after a failed attempt with no shutdown requested the question is
\* asked iff the attempt was not a reindex (fReset), and AppInitMain returns
\* false otherwise; accepting sets fReindex and starts a new attempt,
\* declining returns false; so there is at most one question, there are at
\* most two attempts, and every step of the loop moves it forward
C2_OneRebuildPrompt ==
    [][ /\ nPrompts' <= 1
        /\ nAttempts' <= 2
        /\ (pc = "AfterAttempt" /\ pc' # pc /\ ~fLoaded /\ ~fRequestShutdown) =>
             IF fReset
             THEN pc' = "InitFailed" /\ nPrompts' = nPrompts
             ELSE pc' = "Prompt" /\ nPrompts' = nPrompts + 1
        /\ (pc = "Prompt" /\ pc' # pc) =>
             \/ pc' = "LoopCond" /\ fReindex' /\ ~fLoaded'
             \/ pc' = "InitFailed" /\ nAttempts' = nAttempts
        /\ (pc = "LoopCond" /\ pc' = "NewChainState") =>
             /\ fReset' = fReindex
             /\ nAttempts' = nAttempts + 1
        /\ (pc \in DOMAIN LoopPlace /\ pc' \in DOMAIN LoopPlace /\ pc' # pc) =>
             LoopRank' > LoopRank
      ]_vars

\* the rebuild was accepted and the second attempt failed as well
C2_Witness ==
    /\ pc = "InitFailed"
    /\ nPrompts = 1
    /\ nAttempts = 2
    /\ fReset /\ strLoadError /\ ~fLoaded

\* C3: of the callers of PrepareShutdown at most one executes the teardown
\* steps at a time and it holds cs_Shutdown; a caller that finds the lock
\* taken returns at once and changes nothing; no caller ever waits
C3_OneCallerTearsDown ==
    [][ /\ Cardinality(InTeardown') <= 1
        /\ \A t \in InTeardown' : cs_Shutdown' = t
        /\ \A t \in Callers :
             (sd[t].pc = "idle" /\ sd'[t].pc # "idle" /\ cs_Shutdown # -1) =>
               /\ sd'[t].pc = "returned"
               /\ UNCHANGED << sys, dbObjects, pidFile, hist, cs_Shutdown >>
        /\ \A t \in Callers :
             (sd[t].pc = "idle" /\ MayCall(t) /\ pc # "Exited") =>
               ENABLED Enter(t)
      ]_vars

\* a caller returned without a teardown while another one was tearing down
C3_Witness ==
    \E t \in Callers, u \in Callers :
        /\ t # u
        /\ sd[t].pc = "DumpCaches"
        /\ sd[u].pc = "returned"
        /\ hist.teardowns = 1

\* C4: a second PrepareShutdown after a completed one destroys, closes,
\* stops and flushes nothing, and the objects of the teardown are at every
\* moment as the first invocation left them
C4_SecondTeardownIdle ==
    hist.teardowns >= 2 =>
        /\ hist.first # << >>
        /\ hist.work = {}
        /\ TeardownState = hist.first[1]

\* two teardowns have completed, the first one of a running node
C4_Witness ==
    /\ hist.teardowns = 2
    /\ InTeardown = {}
    /\ cs_Shutdown = -1
    /\ hist.flushes > 0
    /\ hist.feeWrites = 1

\* C5: whatever the step AppInitMain failed at, the teardown uses no object
\* that was never created; the fee estimates are written only after a
\* successful chain load, the mempool only if ThreadImport loaded it, and the
\* chain state is flushed only if it exists
C5_TeardownGuards ==
    /\ ~sys.nullDeref
    /\ hist.feeWrites > 0 => fLoaded /\ nAttempts > 0
    /\ hist.mempoolDumps > 0 => sys.mempoolLoaded /\ imp.pc = "done"
    /\ hist.flushes > 0 => g_chainstate.id # 0 /\ nAttempts > 0
    /\ initError = "lock" => hist.work = {}

\* a teardown went through after the data directory lock was not obtained
C5_Witness ==
    /\ initError = "lock"
    /\ sd[MainThread].pc = "returned"
    /\ hist.teardowns = 1
    /\ sys.g_connman = "null"

\* C6: the cache snapshot files are written only by a teardown that began
\* after the RPC warmup had finished, which is set at the final step of a
\* successful bring-up only; governance.dat is never written when
\* governance is disabled
C6_SnapshotsOnlyAfterWarmup ==
    /\ \A f \in SnapshotFiles :
         hist.dumps[f] > 0 => ~fRPCInWarmup /\ initError = "none"
    /\ args.disablegovernance => hist.dumps["governance.dat"] = 0
    /\ \A t \in InTeardown :
         (sd[t].pc # "StopServers" /\ sd[t].fRPCInWarmup) => fRPCInWarmup

\* a running node with governance disabled wrote its snapshots
C6_Witness ==
    /\ args.disablegovernance
    /\ hist.dumps["mncache.dat"] = 1
    /\ hist.dumps["sporks.dat"] = 1
    /\ hist.dumps["governance.dat"] = 0

\* C7: the RPC warmup is over only in a bring-up that loaded the chain state,
\* has the genesis block and started the connection manager, at its last
\* step; before that, and after a bring-up that failed, it is still on
C7_WarmupEndsLast ==
    ~fRPCInWarmup =>
        /\ fLoaded
        /\ fHaveGenesis
        /\ initError = "none"
        /\ pc \in {"Running", "Shutdown", "Exited"}
        /\ hist.teardowns = 0 => sys.g_connman = "started"

\* the node runs and the warmup is over
C7_Witness ==
    /\ pc = "Running"
    /\ ~fRPCInWarmup
    /\ sys.g_connman = "started"
    /\ sys.rpcServer = "on"

\* C8: a load attempt that read index flags from disk which differ from the
\* requested ones ends at the flag check with a load error and is not marked
\* loaded; nothing after the check runs, and the chain state is loaded, only
\* with flags on disk that are the requested ones
C8_FlagMismatchRejected ==
    [][ /\ (pc = "CheckFlags" /\ pc' # pc /\ FlagMismatch) =>
             /\ pc' = "AfterAttempt"
             /\ strLoadError'
             /\ ~fLoaded'
             /\ UNCHANGED << disk, openCoins >>
        /\ (pc' \in {"LoadGenesis", "InitCoins", "LoadTip", "UpgradeEvo",
                    "Verify", "VerifyDB"} \/ fLoaded') =>
             /\ fIndex' = args.indexes
             /\ disk'.flags = args.indexes
      ]_vars

\* the spent index was on disk and is not requested: the rebuild is offered
C8_Witness ==
    /\ pc = "Prompt"
    /\ nAttempts = 1
    /\ args.indexes = {}
    /\ fIndex = {"spent"}
    /\ disk.flags = {"spent"}
    /\ strLoadError /\ ~fLoaded

\* the steps of ThreadImport that replay one block file
ReplaySteps == {"reindexFile", "bootstrapFile", "loadblockFile"}

\* C9: when the replay of a block file ends and shutdown has been
\* requested, ThreadImport returns: it opens no further file and does not
\* call ActivateBestChain
C9_ImportStopsAfterFile ==
    [][ (imp.pc \in ReplaySteps /\ imp'.pc # imp.pc /\ fRequestShutdown) =>
          /\ imp'.pc = "done"
          /\ imp'.activated = imp.activated
      ]_vars

\* shutdown was requested before the replay of bootstrap.dat ended, and
\* ThreadImport went on to ActivateBestChain
C9_Witness ==
    /\ fRequestShutdown
    /\ imp.pc = "postImport"
    /\ imp.activated = 1
    /\ imp.imported = << << "bootstrap", 0 >> >>
    /\ pc = "InitFailed"

\* the steps before AppInitMain
BeforeMain == {"Unstarted", "SanityChecked"}

\* C10: this process is past AppInitLockDataDirectory only while it holds
\* the lock of the data directory, which the other instance then does not;
\* while the other instance holds it this process fails at the probe or at
\* the acquisition, and a process that failed for the lock writes no PID
\* file and opens, wipes and changes no database
C10_OneInstancePerDataDir ==
    [][ /\ pc' \notin BeforeMain \cup {"InitFailed", "Shutdown", "Exited"} =>
             dirLock' = "self"
        /\ (pc \in BeforeMain /\ pc' # pc /\ dirLock = "other") =>
             /\ pc' = "InitFailed"
             /\ initError' \in {"lock", "other"}
             /\ dirLock' = "other"
        /\ (pc \in BeforeMain \/ initError = "lock") =>
             /\ pidFile' # "self"
             /\ UNCHANGED << disk, wiped, constructed, openBlockTree, openEvo,
                             openCoins, pblocktree, evoDb, nAttempts >>
        /\ initError' = "lock" =>
             /\ pc' \in {"InitFailed", "Shutdown", "Exited"}
             /\ nAttempts' = 0 /\ wiped' = {}
      ]_vars

\* the other instance took the lock after the probe, and this process
\* failed at the acquisition and has shut down
C10_Witness ==
    /\ initError = "lock"
    /\ pc = "Exited"
    /\ dirLock = "other"
    /\ nAttempts = 0 /\ wiped = {}
    /\ openBlockTree = {} /\ openEvo = {} /\ openCoins = {}

\* C11: for every -dbcache value and every build, the clamped total lies
\* between nMinDbCache and nMaxDbCache MiB; the block-tree cache, the
\* tx-index cache, the cache of each block filter index, the coin-DB cache
\* and the in-memory coin cache are not negative; the block-tree, tx-index,
\* filter-index and coin-DB caches are at most their own limits (the tx-index
\* cache is zero without -txindex); and all of them together are at most
\* the clamped total
C11_CacheBudget ==
    cache.computed =>
      LET l == Limits(cache.build)
          n_indexes == args.blockfilterindex
      IN
      /\ cache.nTotalCache >= l.nMinDbCache * MiB
      /\ cache.nTotalCache <= l.nMaxDbCache * MiB
      /\ cache.nBlockTreeDBCache >= 0
      /\ cache.nTxIndexCache >= 0
      /\ cache.filter_index_cache >= 0
      /\ cache.nCoinDBCache >= 0
      /\ cache.nCoinCacheUsage >= 0
      /\ cache.nBlockTreeDBCache <= l.nMaxBlockDBCache * MiB
      /\ cache.nTxIndexCache <= l.nMaxTxIndexCache * MiB
      /\ ~args.txindex => cache.nTxIndexCache = 0
      /\ cache.filter_index_cache * n_indexes
            <= l.max_filter_index_cache * MiB
      /\ cache.nCoinDBCache <= l.nMaxCoinsDBCache * MiB
      /\ cache.nBlockTreeDBCache + cache.nTxIndexCache
            + cache.filter_index_cache * n_indexes
            + cache.nCoinDBCache + cache.nCoinCacheUsage
            <= cache.nTotalCache

\* a -dbcache above the maximum was clamped, the tx index and a block filter
\* index took their shares and the coin-DB cache reached its limit
C11_Witness ==
    /\ cache.computed
    /\ args.dbcache > Limits(cache.build).nMaxDbCache
    /\ cache.nTotalCache = Limits(cache.build).nMaxDbCache * MiB
    /\ cache.nTxIndexCache > 0
    /\ args.blockfilterindex > 0 /\ cache.filter_index_cache > 0
    /\ cache.nCoinDBCache = Limits(cache.build).nMaxCoinsDBCache * MiB
    /\ cache.nCoinCacheUsage > 0

\* C12: once the shutdown flag is set no step clears it
C12_ShutdownFlagNeverCleared ==
    [][fRequestShutdown => fRequestShutdown']_vars

\* a shutdown was requested while the rebuild question was shown
C12_Witness ==
    /\ pc = "Prompt"
    /\ fRequestShutdown
    /\ ~fReset /\ ~fLoaded

\* the steps of PrepareShutdown in the order of the code
TeardownPlace ==
    [s \in {"StopServers", "StopNet", "StopScheduler", "JoinThreads",
            "DumpCaches", "DestroyNet", "DumpMempool", "FlushChainState",
            "CloseChainState", "DestroyManagers", "DestroyEvoDb",
            "StopClients", "RemovePid", "Unregister"} |->
       CASE s = "StopServers" -> 1
         [] s = "StopNet" -> 2
         [] s = "StopScheduler" -> 3
         [] s = "JoinThreads" -> 4
         [] s = "DumpCaches" -> 5
         [] s = "DestroyNet" -> 6
         [] s = "DumpMempool" -> 7
         [] s = "FlushChainState" -> 8
         [] s = "CloseChainState" -> 9
         [] s = "DestroyManagers" -> 10
         [] s = "DestroyEvoDb" -> 11
         [] s = "StopClients" -> 12
         [] s = "RemovePid" -> 13
         [] s = "Unregister" -> 14]

\* the step the caller that holds cs_Shutdown is about to take, 0 if none
Place == IF cs_Shutdown = -1 THEN 0 ELSE TeardownPlace[sd[cs_Shutdown].pc]

\* the producers of new work are stopped
ProducersStopped ==
    /\ sys.rpcServer # "on"
    /\ sys.g_connman \notin {"created", "started"}
    /\ sys.g_txindex # "running"

\* the scheduler is stopped, the thread group joined, the script workers gone
WorkersStopped ==
    /\ sys.scheduler # "running"
    /\ imp.pc \in {"notspawned", "done"}
    /\ ~sys.scriptWorkers

\* what a teardown writes, closes and destroys after the callbacks are flushed
AfterCallbackFlush ==
    {"destroy peerLogic", "destroy g_connman", "destroy g_banman",
     "destroy g_txindex", "flush fee estimates", "flush chain state",
     "close coin views", "destroy pblocktree", "destroy llmq",
     "destroy quorumSnapshotManager", "destroy deterministicMNManager",
     "destroy evoDb", "destroy pdsNotificationInterface"}

\* some teardown wrote a snapshot, the mempool or the fee estimates, or
\* flushed the chain state
SomethingWritten ==
    \/ \E f \in SnapshotFiles : hist.dumps[f] > 0
    \/ hist.mempoolDumps > 0
    \/ hist.feeWrites > 0
    \/ hist.flushes > 0

NetDestroyed ==
    hist.work \cap {"destroy peerLogic", "destroy g_connman",
                    "destroy g_banman"}

\* C14: the message processor is unregistered before the connection manager
\* is stopped; both stay alive, stopped, until the snapshots are written; the
\* message processor is destroyed before the connection manager and the ban
\* manager, and none of the three while the connection manager or the
\* scheduler runs, so that no object outlives one it points to
C14_PeerLogicBeforeConnman ==
    /\ ~sys.misordered
    /\ sys.g_connman = "stopped" => ~sys.peerLogicRegistered
    /\ sys.peerLogic => sys.g_connman # "null" /\ sys.g_banman
    /\ sys.g_connman # "null" => sys.g_banman
    /\ Place \in 3 .. 6 =>
         /\ ~sys.peerLogicRegistered
         /\ sys.g_connman \notin {"created", "started"}
         /\ "stop g_connman" \in hist.work => sys.peerLogic
    /\ Place \in 1 .. 6 => NetDestroyed = {}
    /\ NetDestroyed # {} =>
         /\ sys.scheduler # "running"
         /\ imp.pc \in {"notspawned", "done"}
         /\ ~sys.peerLogic /\ sys.g_connman = "null" /\ ~sys.g_banman

\* a teardown has stopped the connection manager and the scheduler and then
\* destroyed the message processor, the connection manager and the ban
\* manager
C14_Witness ==
    /\ Place = 7
    /\ {"stop g_connman", "stop scheduler", "destroy peerLogic",
        "destroy g_connman", "destroy g_banman"} \subseteq hist.work
    /\ ~sys.peerLogic /\ sys.g_connman = "null" /\ ~sys.g_banman

\* the destructions of the database objects a teardown has done
DbDestroyed ==
    hist.work \cap {"destroy pblocktree", "destroy llmq",
                    "destroy quorumSnapshotManager",
                    "destroy deterministicMNManager", "destroy evoDb"}

\* C15: a teardown flushes the chain state at its first flush and again at
\* its second, which also closes the coin views; a chain state that does not
\* exist or has no open views is not flushed, so that all teardowns together
\* flush twice or not at all; the block-tree DB, the LLMQ system, the
\* quorum-snapshot manager, the masternode-list manager and the evo DB are
\* destroyed only after the second flush, with the coin views closed
C15_FlushBeforeDestroy ==
    /\ hist.flushes \in 0 .. 2
    /\ hist.flushes > 0 => g_chainstate.id # 0
    /\ Place \in 1 .. 8 => "flush chain state" \notin hist.work
    /\ Place = 9 =>
         /\ ("flush chain state" \in hist.work) = CanFlush
         /\ "close coin views" \notin hist.work
         /\ hist.flushes = IF CanFlush THEN 1 ELSE hist.flushes
    /\ Place > 9 =>
         /\ ~CanFlush
         /\ ("flush chain state" \in hist.work)
              = ("close coin views" \in hist.work)
         /\ "flush chain state" \in hist.work =>
              hist.flushes = 2 /\ openCoins = {}
    /\ Place \in 1 .. 10 => DbDestroyed = {}
    /\ DbDestroyed # {} =>
         /\ ~CanFlush
         /\ pblocktree = 0 /\ llmqSystem = 0 /\ quorumSnapshotManager = 0
         /\ deterministicMNManager = 0
         /\ "destroy evoDb" \in hist.work => evoDb = 0 /\ openEvo = {}

\* a teardown flushed the chain state twice, closed the coin views and then
\* destroyed the block-tree DB, the managers and the evo DB
C15_Witness ==
    /\ Place = 12
    /\ hist.flushes = 2
    /\ {"flush chain state", "close coin views", "destroy pblocktree",
        "destroy llmq", "destroy quorumSnapshotManager",
        "destroy deterministicMNManager", "destroy evoDb"}
         \subseteq hist.work
    /\ g_chainstate.id # 0 /\ g_chainstate.views = "none"
    /\ openCoins = {} /\ openBlockTree = {} /\ openEvo = {}

\* C16: the removal of the PID file is the last step of a teardown: as long
\* as the first teardown of the process has a step left, the unregistration
\* of the remaining listeners and the clearing of the client handles
\* included, no PID file has been removed
C16_PidFileRemovedLast ==
    (Place \in 1 .. 14 /\ hist.teardowns = 1) => hist.removedPid = "none"

\* the PID file this process wrote is removed and the teardown is about to
\* clear the client handles and unregister the remaining listeners
C16_Witness ==
    /\ Place = 14
    /\ hist.teardowns = 1
    /\ hist.removedPid = "self"
    /\ pidFile = "absent"

\* C17: a teardown removes no PID file but the one this process wrote
C17_OwnPidFileOnly ==
    hist.removedPid \in {"none", "self"}

\* the data directory is locked by another instance, which is still running;
\* this process failed for the lock, wrote no PID file, and its teardown
\* removed the PID file of the other instance
C17_Witness ==
    /\ initError = "lock"
    /\ dirLock = "other"
    /\ hist.removedPid = "other"
    /\ pidFile = "absent"
    /\ hist.teardowns = 1

\* C18: while the main thread waits, fHaveGenesis is set exactly if there is
\* a tip, so that no notification is lost; the wait can end exactly if the
\* tip was notified or shutdown was requested, whether ThreadImport has run
\* or not; once shutdown is requested during or right after the wait,
\* AppInitMain leaves it only by returning false, with the connection manager
\* not started; and the network is started only with the genesis block
C18_GenesisWait ==
    [][ /\ pc' = "GenesisWait" =>
             /\ fHaveGenesis' = tip'
             /\ (ENABLED GenesisWait)' = (fHaveGenesis' \/ fRequestShutdown')
        /\ fHaveGenesis => fHaveGenesis'
        /\ (pc \in {"GenesisWait", "AfterGenesisWait"} /\ fRequestShutdown) =>
             /\ pc' \in {"GenesisWait", "AfterGenesisWait", "InitFailed"}
             /\ sys'.g_connman # "started"
        /\ (pc' \in {"Step12", "Step13", "Running"}
              \/ sys'.g_connman = "started") =>
             fHaveGenesis' /\ tip'
      ]_vars

\* shutdown was requested before ThreadImport took a step and before any
\* tip: the wait ended and AppInitMain returned false, the connection
\* manager not started
C18_Witness ==
    /\ pc = "InitFailed"
    /\ imp.pc = "start"
    /\ fRequestShutdown
    /\ ~fHaveGenesis /\ ~tip
    /\ sys.g_connman = "created"

\* place of a kind of import file in the order of ThreadImport
ImportRank ==
    [k \in {"blk", "bootstrap", "loadblock"} |->
       CASE k = "blk" -> 1 [] k = "bootstrap" -> 2 [] k = "loadblock" -> 3]

\* the files were replayed in the order of ThreadImport: the block files by
\* number, then bootstrap.dat, then the -loadblock files as given
ImportedInOrder(imported) ==
    \A i, j \in 1 .. Len(imported) :
       i < j =>
         \/ ImportRank[imported[i][1]] < ImportRank[imported[j][1]]
         \/ /\ imported[i][1] = imported[j][1]
            /\ imported[i][2] < imported[j][2]

\* C19: ThreadImport is started once and, once returned, stays returned; it
\* calls ActivateBestChain at most once, and only when the reindex scan is
\* over, bootstrap.dat was handled and every -loadblock file was handled, the
\* files having been replayed in that order; an activation that leaves the
\* chain without a tip, like every activation that does not lead to the
\* post-import steps, ends ThreadImport with shutdown requested and with
\* nothing of the post-import steps done, which are entered only from a
\* successful activation
C19_ActivateOnceInOrder ==
    [][ /\ imp'.pc = "start" => imp.pc \in {"notspawned", "start"}
        /\ imp.pc = "done" => imp'.pc = "done"
        /\ imp'.activated <= 1
        /\ imp'.activated # imp.activated =>
             /\ imp.pc = "activate"
             /\ ~fReindex /\ ~disk.reindexing
             /\ imp.i = args.nLoadBlock
             /\ ImportedInOrder(imp.imported)
        /\ (imp.pc = "activate" /\ imp'.pc # "activate") =>
             /\ imp'.activated = 1
             /\ ~tip' => imp'.pc = "done"
             /\ imp'.pc = "done" =>
                  fRequestShutdown' /\ sys' = sys /\ ~sys.mempoolLoaded
        /\ (imp'.pc = "postImport" /\ imp.pc # "postImport") =>
             imp.pc = "activate" /\ tip'
        /\ sys'.mempoolLoaded => imp'.pc = "done" /\ imp'.activated = 1
      ]_vars

\* after a reindex of a block file, bootstrap.dat and a -loadblock file the
\* activation failed: ThreadImport returned with shutdown requested, the
\* mempool not loaded
C19_Witness ==
    /\ imp.pc = "done"
    /\ imp.activated = 1
    /\ ~tip
    /\ fRequestShutdown
    /\ ~sys.mempoolLoaded
    /\ imp.imported = << << "blk", 0 >>, << "bootstrap", 0 >>,
                         << "loadblock", 0 >> >>

\* C20: bootstrap.dat carries the name bootstrap.dat.old only if its replay
\* read the whole file; a file that was not opened or whose replay stopped
\* early keeps its name
C20_RenamedOnlyIfImported ==
    /\ disk.bootstrap = "old" => imp.replayed = "complete"
    /\ imp.replayed # "complete" =>
         disk.bootstrap \in {"absent", "present"}

\* the replay of bootstrap.dat stopped early and the file was renamed
C20_Witness ==
    /\ imp.replayed = "incomplete"
    /\ disk.bootstrap = "old"
    /\ << "bootstrap", 0 >> = imp.imported[Len(imp.imported)]

\* the block files ThreadImport replayed for the reindex, in the order of
\* the replay
ReindexedFiles == SelectSeq(imp.imported, LAMBDA e : e[1] = "blk")

\* the reindex replays blk00000.dat, blk00001.dat, ... in ascending order,
\* each once, and only files that exist; the marker on disk and fReindex
\* stay set while it does, and are cleared, with the genesis block
\* initialized, once it left the loop
ReindexReplay ==
    /\ \A k \in 1 .. Len(ReindexedFiles) :
         ReindexedFiles[k] = << "blk", k - 1 >>
    /\ Len(ReindexedFiles) <= disk.blockFiles
    /\ imp.pc \in {"reindexScan", "reindexFile"} =>
         /\ fReindex /\ disk.reindexing
         /\ imp.reindexEnd = "none"
    /\ imp.reindexEnd # "none" =>
         /\ Len(ReindexedFiles) = imp.nFile
         /\ ~fReindex /\ ~disk.reindexing /\ disk.populated

Attempted(src) ==
    \/ src \in imp.skipped
    \/ \E k \in 1 .. Len(imp.imported) : imp.imported[k] = src

\* ThreadImport is past bootstrap.dat
PastBootstrap ==
    \/ imp.pc \in {"loadblock", "loadblockFile", "activate", "postImport"}
    \/ imp.activated = 1

\* ThreadImport is past the -loadblock files
PastLoadBlock == imp.pc \in {"activate", "postImport"} \/ imp.activated = 1

AfterCheckGenesis ==
    {"CheckFlags", "LoadGenesis", "InitCoins", "LoadTip", "UpgradeEvo",
     "Verify", "VerifyDB"}

\* C23: a load attempt that finds a block index that is not empty and lacks
\* the genesis block of the network (or of the devnet) ends AppInitMain at
\* once with an error: the step after the test is the return, with no
\* question asked, no further attempt and nothing loaded, with -reindex,
\* -reindex-chainstate, a pending reindex or none of them; no attempt goes
\* past the test with such an index
C23_WrongGenesisFailsAtOnce ==
    [][ /\ (pc = "CheckGenesis" /\ WrongGenesis /\ pc' # pc) =>
             /\ pc' = "InitFailed"
             /\ initError' \in {"config", "other"}
             /\ nPrompts' = nPrompts /\ nAttempts' = nAttempts
             /\ strLoadError' = strLoadError
             /\ ~fLoaded'
        /\ WrongGenesis' => pc' \notin AfterCheckGenesis /\ ~fLoaded'
        /\ (pc = "InitFailed" /\ WrongGenesis) =>
             nPrompts' = nPrompts /\ nAttempts' = nAttempts
      ]_vars

\* the first attempt of a start with -reindex-chainstate found a block index
\* of another network: AppInitMain returned with no question asked
C23_Witness ==
    /\ pc = "InitFailed"
    /\ WrongGenesis
    /\ args.reindexChainstate
    /\ initError = "other"
    /\ nAttempts = 1 /\ nPrompts = 0
    /\ ~strLoadError

\* C24: the step of LoadChainTip sets the tip or fails only with a coin view
\* that is not empty, and leaves attempt and tip alone otherwise; the test of
\* the tip's time fails, and VerifyDB is reached, only with a coin view that
\* is not empty; with an empty one (the coin database wiped by a full reindex
\* or by -reindex-chainstate, or no best block in it) the step of the
\* verification marks the attempt loaded at once; a failed step never marks it
\* loaded, and an attempt is loaded only with no load error
C24_VerifyOnlyNonEmptyView ==
    [][ /\ (pc = "LoadTip" /\ pc' # pc) =>
             IF IsCoinsViewEmpty
             THEN pc' = "UpgradeEvo" /\ tip' = tip /\ ~strLoadError'
             ELSE \/ pc' = "UpgradeEvo" /\ tip' /\ ~strLoadError'
                  \/ pc' = "AfterAttempt" /\ strLoadError' /\ ~fLoaded'
        /\ (pc = "Verify" /\ pc' # pc) =>
             IF IsCoinsViewEmpty
             THEN pc' = "AfterAttempt" /\ fLoaded' /\ ~strLoadError'
             ELSE \/ pc' = "VerifyDB" /\ ~fLoaded' /\ ~strLoadError'
                  \/ pc' = "AfterAttempt" /\ strLoadError' /\ ~fLoaded'
        /\ pc' = "VerifyDB" =>
             /\ ~IsCoinsViewEmpty'
             /\ ~(fReset' \/ args.reindexChainstate) /\ disk'.coins
             /\ tip'
        /\ (pc = "VerifyDB" /\ pc' # pc) =>
             /\ pc' = "AfterAttempt"
             /\ fLoaded' = ~strLoadError'
        /\ fLoaded' => ~strLoadError'
        /\ (fLoaded' /\ ~fLoaded) => pc \in {"Verify", "VerifyDB"}
      ]_vars

\* an attempt with -reindex-chainstate on a used data directory was marked
\* loaded by the step of the verification, with no tip loaded
C24_Witness ==
    /\ pc = "AfterAttempt"
    /\ fLoaded
    /\ args.reindexChainstate /\ ~fReset
    /\ disk.populated
    /\ ~tip
    /\ nAttempts = 1

\* C25: with a coin view that is not empty and a tip whose nTime is more
\* than 2 * 60 * 60 seconds ahead of the adjusted time, the test of the tip's
\* time ends the attempt with a load error, not loaded, before VerifyDB, and
\* what follows is the question or the return of AppInitMain; a tip that is
\* ahead by two hours or less passes on to VerifyDB
C25_FutureTipRejected ==
    [][ /\ (pc = "Verify" /\ pc' # pc /\ ~IsCoinsViewEmpty) =>
             IF disk.tipAhead > 7200
             THEN pc' = "AfterAttempt" /\ strLoadError' /\ ~fLoaded'
             ELSE pc' = "VerifyDB" /\ ~strLoadError'
        /\ pc' = "VerifyDB" => disk'.tipAhead <= 7200
        /\ (fLoaded' /\ ~IsCoinsViewEmpty') => disk'.tipAhead <= 7200
        /\ (pc = "AfterAttempt" /\ pc' # pc /\ strLoadError) =>
             pc' \in {"Prompt", "InitFailed", "LoopCond"}
        /\ (pc = "AfterAttempt" /\ pc' = "LoopCond" /\ strLoadError) =>
             fRequestShutdown
      ]_vars

\* the tip was 7201 seconds ahead: the attempt failed at the test and the
\* question is asked
C25_Witness ==
    /\ pc = "Prompt"
    /\ disk.tipAhead = 7201
    /\ tip /\ disk.coins /\ ~fReset
    /\ strLoadError /\ ~fLoaded
    /\ nAttempts = 1

\* one of the services of step 4a was started: the script-check workers, the
\* scheduler thread or the RPC/HTTP layer
ServiceStarted ==
    sys.scriptWorkers \/ sys.scheduler = "running" \/ sys.rpcServer = "on"

\* a database of the chain state was opened or a load attempt begun
ResourceOpened ==
    \/ nAttempts >= 1
    \/ openBlockTree # {} \/ openEvo # {} \/ openCoins # {}

\* C26 as stated: the script-check workers, the scheduler thread and the
\* RPC/HTTP layer are started only after the databases were opened and the
\* chain state was loaded
C26_ServicesAfterLoad == ServiceStarted => (ResourceOpened /\ fLoaded)

\* C26, amended: the script-check workers, the scheduler thread and the
\* RPC/HTTP layer (in warmup) are started after the data-directory lock was
\* taken and the PID file written and before any database is opened: when
\* the first load attempt begins they all run, as -par and -server ask, and
\* the RPC/HTTP layer stays in warmup until AppInitMain returns true
C26_ServicesBeforeLoad ==
    /\ ServiceStarted => dirLock = "self" /\ pidFile = "self"
    /\ ResourceOpened =>
         /\ sys.scriptWorkers = args.par
         /\ sys.scheduler = "running"
         /\ sys.rpcServer = IF args.server THEN "on" ELSE "off"
    /\ (sys.rpcServer = "on" /\ pc # "Running") => fRPCInWarmup

\* the workers, the scheduler and the RPC/HTTP layer run, in warmup, and no
\* database was opened yet
C26_Witness ==
    /\ pc = "LoopCond"
    /\ nAttempts = 0
    /\ openBlockTree = {} /\ openEvo = {} /\ openCoins = {}
    /\ sys.scriptWorkers /\ sys.scheduler = "running" /\ sys.rpcServer = "on"
    /\ fRPCInWarmup /\ ~fLoaded

\* C27: AppInitMain returns with an error about an option only while the PID
\* file is not written and no database was opened
C27_ConfigErrorsBeforeResources ==
    (pc = "InitFailed" /\ initError = "config") =>
        /\ pidFile # "self"
        /\ ~ResourceOpened

\* governance validation without -txindex was refused inside the first load
\* attempt, with the PID file written and the block-tree and evo databases
\* open
C27_Witness ==
    /\ pc = "InitFailed" /\ initError = "config"
    /\ ~args.disablegovernance /\ ~args.txindex
    /\ pidFile = "self"
    /\ nAttempts = 1
    /\ openBlockTree = {1} /\ openEvo = {1}

(* ------------------ C28, C29: parameter interaction ------------------- *)

\* the options of the network rules of InitParameterInteraction
NetOptions == {"listen", "dnsseed", "upnp", "natpmp", "discover", "listenonion"}

\* InitParameterInteraction has run
ParametersResolved == pc # "Parameters"

\* C28: once InitParameterInteraction has run, every network option the user
\* gave keeps the value given; an unset -listen is true when -bind or
\* -whitebind is set, whatever -connect and -proxy are, and false when only
\* -connect or -proxy is set; and when -listen reads false, each of -upnp,
\* -natpmp, -discover and -listenonion the user did not give is false
C28_ListenResolved ==
    ParametersResolved =>
      LET g == args.given
          o == args.opts
          anyBind == IsArgSet(g, "bind") \/ IsArgSet(g, "whitebind")
      IN  /\ \A name \in NetOptions : IsArgSet(g, name) => o[name] = g[name]
          /\ ~IsArgSet(g, "listen") /\ anyBind => o["listen"] = "1"
          /\ /\ ~IsArgSet(g, "listen") /\ ~anyBind
             /\ IsArgSet(g, "connect") \/ IsArgSet(g, "proxy")
             => o["listen"] = "0"
          /\ ~GetBoolArg(o, "listen", args.build.DEFAULT_LISTEN) =>
               \A name \in {"upnp", "natpmp", "discover", "listenonion"} :
                 ~IsArgSet(g, name) => o[name] = "0"

\* a start with -bind, -connect and -proxy and no -listen: -listen has become
\* true, the unset -upnp false and the given -discover=1 is kept
C28_Witness ==
    /\ pc = "ParameterChecks"
    /\ IsArgSet(args.given, "bind") /\ IsArgSet(args.given, "connect")
    /\ IsArgSet(args.given, "proxy")
    /\ args.given["listen"] = Unset /\ args.opts["listen"] = "1"
    /\ args.given["upnp"] = Unset /\ args.opts["upnp"] = "0"
    /\ args.given["discover"] = "1" /\ args.opts["discover"] = "1"

\* C29: with -prune > 0, InitParameterInteraction turns an unset -txindex
\* false and an unset -disablegovernance true; AppInitParameterInteraction
\* fails, with nothing allocated, when -txindex was given true,
\* -disablegovernance was given false or a block filter index is enabled; and
\* when it succeeds the transaction index is off, governance validation is
\* disabled and no block filter index is enabled
C29_PruneDisablesIndexes ==
    LET g == args.given
        o == args.opts
        build == args.build
    IN  ParametersResolved /\ GetArgInt(g, "prune", 0) > 0 =>
          /\ ~IsArgSet(g, "txindex") => o["txindex"] = "0"
          /\ ~IsArgSet(g, "disablegovernance") => o["disablegovernance"] = "1"
          /\ \/ IsArgSet(g, "txindex") /\ InterpretBool(g["txindex"])
             \/ /\ IsArgSet(g, "disablegovernance")
                /\ ~InterpretBool(g["disablegovernance"])
             \/ EnabledFilterTypes(g, build) # {}
             => pc # "Unstarted"
          /\ pc = "InitFailed" => initError = "config" /\ NothingAllocated
          /\ pc = "Unstarted" =>
               /\ args.fPruneMode
               /\ ~GetBoolArg(o, "txindex", build.DEFAULT_TXINDEX)
               /\ args.fDisableGovernance
               /\ args.g_enabled_filter_types = {}

\* a build whose -txindex default is true started with -prune=550 alone has
\* passed the parameter steps with the index off and governance disabled
C29_Witness ==
    /\ pc = "Unstarted"
    /\ args.given["prune"] = ToString(MinPruneMiB)
    /\ args.given["txindex"] = Unset /\ args.given["disablegovernance"] = Unset
    /\ args.build.DEFAULT_TXINDEX
    /\ args.opts["txindex"] = "0" /\ args.fDisableGovernance

(* ---------------- C30: the cache files of step 10b -------------------- *)

\* C30: step 10b loads a cache from its file only when fReindex and
\* -reindex-chainstate are off and the active chain has a tip (governance.dat
\* also only with governance enabled), and a failed load returns from
\* AppInitMain with an error; otherwise the file is not loaded but an empty
\* cache is written over it; and no start with -reindex or
\* -reindex-chainstate ever loads one
C30_CachesLoadedOrCleared ==
    [][ /\ (args.reindex \/ args.reindexChainstate) =>
             \A f \in DOMAIN sys'.caches :
               sys'.caches[f] \notin {"loaded", "loadFailed"}
        /\ pc = "Step10b" /\ pc' # "Step10b" =>
             \A f \in DOMAIN sys'.caches :
               LET c == sys'.caches[f]
                   load == /\ ~fReindex /\ ~args.reindexChainstate /\ tip
                           /\ f = "governance.dat" => ~args.disablegovernance
               IN  /\ c \in {"loaded", "loadFailed"} => load
                   /\ c \in {"cleared", "clearFailed"} => ~load
                   /\ c \in {"loadFailed", "clearFailed"} =>
                        pc' = "InitFailed" /\ initError' # "none"
                   /\ pc' = "Step11" =>
                        c = IF load THEN "loaded" ELSE "cleared" ]_vars

\* a start without reindex on a used directory, with governance disabled, is
\* past step 10b: mncache.dat and netfulfilled.dat loaded, governance.dat
\* overwritten
C30_Witness ==
    /\ pc = "Step11"
    /\ ~args.reindex /\ ~args.reindexChainstate /\ args.disablegovernance
    /\ sys.caches["mncache.dat"] = "loaded"
    /\ sys.caches["netfulfilled.dat"] = "loaded"
    /\ sys.caches["governance.dat"] = "cleared"

(* ------------------- C31: the waterfall of step 7b -------------------- *)

\* C31: with T the clamped total, the block-tree cache is the smaller of T/8
\* and its limit; the tx-index cache is the smaller of an eighth of what is
\* left and its limit, or 0 without -txindex; each of the n enabled filter
\* indexes gets the n-th part of the smaller of an eighth of what is then left
\* and the filter limit; the coin-DB cache is at most half of the rest and at
\* most its limit, and at least a quarter of the rest unless it is the limit;
\* the coin cache is all that remains, so that the shares add up to T
C31_CacheWaterfall ==
    cache.computed =>
      LET l == Limits(cache.build)
          n == args.blockfilterindex
          T == cache.nTotalCache
          left1 == T - cache.nBlockTreeDBCache
          left2 == left1 - cache.nTxIndexCache
          txLimit == IF args.txindex THEN l.nMaxTxIndexCache * MiB ELSE 0
          filterLimit == l.max_filter_index_cache * MiB
          pool == IF left2 \div 8 < filterLimit THEN left2 \div 8
                  ELSE filterLimit
          left3 == left2 - n * cache.filter_index_cache
          coinLimit == l.nMaxCoinsDBCache * MiB
      IN
      /\ cache.nBlockTreeDBCache =
           IF T \div 8 < l.nMaxBlockDBCache * MiB THEN T \div 8
           ELSE l.nMaxBlockDBCache * MiB
      /\ cache.nTxIndexCache =
           IF left1 \div 8 < txLimit THEN left1 \div 8 ELSE txLimit
      /\ cache.filter_index_cache = IF n > 0 THEN pool \div n ELSE 0
      /\ n * cache.filter_index_cache <= pool
      /\ cache.nCoinDBCache <= left3 \div 2
      /\ cache.nCoinDBCache <= coinLimit
      /\ cache.nCoinDBCache >= left3 \div 4 \/ cache.nCoinDBCache = coinLimit
      /\ cache.nCoinCacheUsage = left3 - cache.nCoinDBCache
      /\ cache.nBlockTreeDBCache + cache.nTxIndexCache
           + n * cache.filter_index_cache + cache.nCoinDBCache
           + cache.nCoinCacheUsage = T

\* the tx index and two filter indexes took their shares, the coin-DB cache
\* is half of the rest and below its limit
C31_Witness ==
    /\ cache.computed
    /\ args.txindex /\ cache.nTxIndexCache > 0
    /\ args.blockfilterindex > 1 /\ cache.filter_index_cache > 0
    /\ cache.nCoinDBCache > 0
    /\ cache.nCoinDBCache < Limits(cache.build).nMaxCoinsDBCache * MiB
    /\ cache.nCoinCacheUsage > 0

(* ------------- C32: what a load attempt wipes on disk ----------------- *)

\* C32: the step of an attempt that opens the block-tree DB wipes it iff the
\* start has -reindex or the attempt follows an accepted rebuild question, and
\* no other step wipes it; in a start with -reindex-chainstate alone no step
\* of the load loop wipes the block-tree DB or changes the persisted
\* reindexing marker, while the evo DB is wiped when it is opened and the
\* coin DB when its views are opened
C32_WipeOnlyOnFullReindex ==
    [][ LET fullReindex == args.reindex \/ nAttempts > 1
            blockTreeWiped == << "blocktree", nAttempts >> \in wiped'
            mainStep == pc \in DOMAIN LoopPlace /\ pc' # pc
        IN  /\ openBlockTree' # openBlockTree /\ nAttempts \in openBlockTree'
                 /\ mainStep
               => /\ blockTreeWiped <=> fullReindex
                  /\ ~fullReindex => disk' = disk
                  /\ fullReindex => ~disk'.populated /\ ~disk'.reindexing
            /\ openBlockTree' = openBlockTree \/ ~mainStep =>
                 \A w \in wiped' \ wiped : w[1] # "blocktree"
            /\ mainStep /\ args.reindexChainstate /\ ~fullReindex =>
                 /\ \A w \in wiped' : w[1] # "blocktree"
                 /\ disk'.reindexing = disk.reindexing
                 /\ disk.populated => disk'.populated
                 /\ nAttempts \in openEvo' \ openEvo =>
                      << "evo", nAttempts >> \in wiped'
                 /\ openCoins' # openCoins /\ openCoins' # {} =>
                      << "coins", nAttempts >> \in wiped' /\ ~disk'.coins
      ]_vars

\* a start with -reindex-chainstate alone on a used directory has opened the
\* coin views: evo DB and coin DB wiped, block-tree DB and marker as they were
C32_Witness ==
    /\ pc = "LoadTip"
    /\ args.reindexChainstate /\ ~args.reindex /\ nAttempts = 1
    /\ wiped = {<< "evo", 1 >>, << "coins", 1 >>}
    /\ disk.populated /\ ~disk.coins /\ ~disk.reindexing

(* ---------- C33: the second part of Shutdown and the teardown ---------- *)

\* C33: when Shutdown has performed its second part, a teardown of
\* PrepareShutdown has run to its end and none is in progress
C33_Part2AfterTeardown ==
    pc = "Exited" => hist.first # << >> /\ cs_Shutdown = -1

\* the main thread has left Shutdown while the thread of a restart is in the
\* middle of the teardown, the chain state not yet flushed and the databases
\* still open
C33_Witness ==
    /\ pc = "Exited"
    /\ cs_Shutdown # -1 /\ cs_Shutdown # MainThread
    /\ sd[cs_Shutdown].pc = "FlushChainState"
    /\ sd[MainThread].pc = "returned"
    /\ hist.first = << >>
    /\ pblocktree # 0

(* --------------- C34: the managers built on the evo DB ----------------- *)

\* C34: the masternode-list manager, the quorum-snapshot manager and the LLMQ
\* system, while they exist, reference an evo DB instance that is open
C34_ManagersOnOpenEvoDb ==
    \A m \in {deterministicMNManager, quorumSnapshotManager, llmqSystem} :
      m # 0 => m \in openEvo

\* the retry after an accepted rebuild has destroyed the evo DB of the first
\* attempt: the LLMQ system is gone, the two managers of the first attempt
\* still exist
C34_Witness ==
    /\ pc = "ConstructEvoDb"
    /\ nAttempts = 2
    /\ evoDb = 0 /\ openEvo = {}
    /\ llmqSystem = 0
    /\ deterministicMNManager = 1 /\ quorumSnapshotManager = 1

(* ------------------- periodic callbacks and their objects --------------- *)

\* C35: while the scheduler thread runs, every object a scheduled callback is
\* bound to exists, and callbacks are scheduled only once the load loop that
\* may replace the managers is over
C35_CallbacksOnLiveObjects ==
    LET Exists(o) == CASE o = "g_connman" -> sys.g_connman # "null"
                       [] o = "g_banman" -> sys.g_banman
                       [] o = "deterministicMNManager" ->
                            deterministicMNManager # 0
    IN  /\ sys.scheduler = "running" => \A o \in sys.scheduled : Exists(o)
        /\ sys.scheduled # {} => pc \notin DOMAIN LoopPlace

\* a teardown after a complete bring-up: every callback was scheduled, the
\* scheduler has been stopped and the objects of the callbacks are destroyed
C35_Witness ==
    /\ sys.scheduled = MaintenanceObjects \cup {"g_banman"}
    /\ sys.scheduler = "stopped"
    /\ sys.g_connman = "null" /\ ~sys.g_banman
    /\ deterministicMNManager = 0
    /\ "stop scheduler" \in hist.work

(* ------------------------ the reindexing marker ------------------------- *)

\* C36: the marker a full-reindex attempt wrote is cleared only by the step
\* of ThreadImport that leaves the reindex scan at its end: the only other
\* step that clears a marker is the wipe with which the one full-reindex
\* attempt of a run opens the block-tree DB, before it writes its own marker;
\* while the scan has not reached its end, a ThreadImport started with the
\* reindex in effect leaves the marker set, also when it has returned, and a
\* start that finds the marker reindexes
C36_MarkerClearedOnlyAfterScan ==
    [][ /\ (disk.reindexing /\ ~disk'.reindexing) =>
             \/ /\ imp.pc = "reindexScan" /\ imp'.pc = "bootstrap"
                /\ imp'.reindexEnd # "none"
                /\ Len(ReindexedFiles) = imp.nFile
             \/ /\ pc = "ConstructBlockTree" /\ fReset
                /\ \A w \in wiped : w[1] # "blocktree"
        /\ (pc = "MarkReindexing" /\ pc' # pc /\ fReset) =>
             /\ disk'.reindexing
             /\ << "blocktree", nAttempts >> \in wiped
        /\ (imp'.pc # "notspawned" /\ imp'.reindexEnd = "none" /\ fReindex') =>
             disk'.reindexing
        /\ (pc' = "Exited" /\ disk.reindexing) =>
             disk'.reindexing \/ imp'.reindexEnd # "none"
        /\ (pc = "LoadBlockIndex" /\ pc' = "CheckGenesis" /\ disk.reindexing) =>
             fReindex'
      ]_vars

\* the process has ended after a start with -reindex whose scan a shutdown
\* request cut short after the first block file: the marker is on disk
C36_Witness ==
    /\ pc = "Exited"
    /\ args.reindex
    /\ << "blocktree", 1 >> \in wiped
    /\ imp.pc = "done" /\ imp.reindexEnd = "none"
    /\ Len(ReindexedFiles) = 1
    /\ disk.reindexing /\ fReindex

(* ------------------------- the mempool file ----------------------------- *)

\* C37: the mempool is marked loaded only by the last step of ThreadImport,
\* reached after a successful activation, and only with no shutdown
\* requested at that step; PrepareShutdown writes the mempool file only when
\* the mempool is marked loaded and -persistmempool is on, so never after an
\* import that was cut short or was never started
C37_MempoolDumpedOnlyIfLoaded ==
    [][ /\ sys'.mempoolLoaded =>
             /\ imp'.pc = "done" /\ imp'.activated = 1 /\ tip'
             /\ sys.mempoolLoaded \/ (imp.pc = "postImport" /\ ~ShutdownRequested)
        /\ hist'.mempoolDumps # hist.mempoolDumps =>
             /\ hist'.mempoolDumps = hist.mempoolDumps + 1
             /\ sys.mempoolLoaded /\ args.persistmempool
             /\ \E t \in Callers : sd[t].pc = "DumpMempool" /\ cs_Shutdown = t
        /\ (~sys'.mempoolLoaded \/ ~args.persistmempool) =>
             hist'.mempoolDumps = 0
      ]_vars

\* the process has ended after a teardown that followed an import cut short
\* behind a successful activation: the mempool is not marked loaded and,
\* with -persistmempool on, its file was not written
C37_Witness ==
    /\ pc = "Exited"
    /\ hist.teardowns = 1 /\ hist.mempoolDumps = 0
    /\ args.persistmempool
    /\ imp.pc = "done" /\ imp.activated = 1 /\ tip
    /\ fRequestShutdown /\ ~sys.mempoolLoaded

(* ------------- CleanupBlockRevFiles and the reindex scan ---------------- *)

\* the directory entries CleanupBlockRevFiles globs are named by a prefix and
\* the characters between the prefix and ".dat":
\* filename.substr(0,3), filename.substr(3,5)
FileIndexWidth == 5

\* the decimal digits, in the order of their character codes
Digits == << "0", "1", "2", "3", "4", "5", "6", "7", "8", "9" >>

\* the character codes std::string compares by
CharCode(ch) ==
    CASE ch = " " -> 32
      [] ch = "+" -> 43
      [] ch = "-" -> 45
      [] ch = "a" -> 97
      [] OTHER -> 47 + (CHOOSE d \in 1 .. 10 : Digits[d] = ch)

\* std::string operator<, the order of the keys of mapBlockFiles
RECURSIVE KeyLess(_, _)
KeyLess(a, b) ==
    IF a = << >> THEN b # << >>
    ELSE IF b = << >> THEN FALSE
    ELSE IF Head(a) = Head(b) THEN KeyLess(Tail(a), Tail(b))
    ELSE CharCode(Head(a)) < CharCode(Head(b))

\* atoi: white space is skipped, a sign is taken, the digits up to the first
\* other character are the number
RECURSIVE atoi(_)
atoi(s) ==
    LET IsDigit(ch) == \E d \in 1 .. 10 : Digits[d] = ch
        RECURSIVE digits(_, _)
        digits(r, acc) ==
            IF r = << >> \/ ~IsDigit(Head(r)) THEN acc
            ELSE digits(Tail(r),
                        10 * acc + (CHOOSE d \in 0 .. 9 : Digits[d + 1] = Head(r)))
    IN  IF s = << >> THEN 0
        ELSE IF Head(s) = " " THEN atoi(Tail(s))
        ELSE IF Head(s) = "+" THEN digits(Tail(s), 0)
        ELSE IF Head(s) = "-" THEN 0 - digits(Tail(s), 0)
        ELSE digits(s, 0)

\* GetBlockPosFilename: "blk%05u.dat" of the file index
BlockFileName(nFile) ==
    << "blk", [i \in 1 .. FileIndexWidth |->
                Digits[((nFile \div (10 ^ (FileIndexWidth - i))) % 10) + 1]] >>

\* CleanupBlockRevFiles: the blocks directory it leaves. The rev files are
\* removed while the directory is read; the blk files are walked in the order
\* of their keys, a file whose key spells nContigCounter is kept and counted,
\* every other file is removed
CleanupBlockRevFiles(dir) ==
    LET mapBlockFiles == { f[2] : f \in { g \in dir : g[1] = "blk" } }
        RECURSIVE walk(_, _)
        walk(keys, nContigCounter) ==
            IF keys = {} THEN {}
            ELSE LET first == CHOOSE k \in keys :
                                \A o \in keys \ {k} : KeyLess(k, o)
                 IN  IF atoi(first) = nContigCounter
                     THEN {<< "blk", first >>}
                          \cup walk(keys \ {first}, nContigCounter + 1)
                     ELSE walk(keys \ {first}, nContigCounter)
    IN  walk(mapBlockFiles, 0)

\* keys that are not the five digits of a file index
StrayKeys == { << "+", "0", "0", "0", "0" >>, << "0", "0", "0", "1", "a" >> }

\* the blocks directories of the starts: block files of indexes up to
\* MaxFileIndex, with gaps, undo files, and files with other keys
BlocksDirs ==
    { blk \cup rev :
        blk \in SUBSET ({ BlockFileName(n) : n \in 0 .. MaxFileIndex } \cup
                        { << "blk", k >> : k \in StrayKeys }),
        rev \in SUBSET { << "rev", BlockFileName(n)[2] >> : n \in 0 .. 1 } }

\* the starts with -reindex, with and without -prune, at the place of an
\* attempt behind the opening of the databases; disk.before keeps the
\* directory as the start found it
InitCleanup ==
    /\ NothingAllocated
    /\ pc = "MarkReindexing"
    /\ initError = "none"
    /\ cache = NoCache("small")
    /\ \E prune \in BOOLEAN : args = [reindex |-> TRUE, prune |-> prune]
    /\ \E dir \in BlocksDirs :
         disk = [reindexing |-> FALSE, before |-> dir, blocksdir |-> dir]

\* what the steps over the blocks directory leave alone
cleanupFrame == << args, cache, dirLock, pidFile, fRPCInWarmup, sys, fReset,
                   fLoaded, strLoadError, pblocktree, evoDb, constructed,
                   openBlockTree, openEvo, openCoins, deterministicMNManager,
                   quorumSnapshotManager, llmqSystem, g_chainstate, fIndex,
                   tip, nAttempts, nPrompts, staleUse, wiped, fHaveGenesis,
                   sd, cs_Shutdown, hist, initError >>

\* fReset = fReindex of a start with -reindex
FullReindexAttempt ==
    /\ pc = "MarkReindexing"
    /\ ~fReset
    /\ fReset' = TRUE /\ fReindex' = TRUE
    /\ UNCHANGED << args, cache, pc, dirLock, pidFile, fRPCInWarmup, sys,
                    fLoaded, strLoadError, pblocktree, evoDb, constructed,
                    openBlockTree, openEvo, openCoins, deterministicMNManager,
                    quorumSnapshotManager, llmqSystem, g_chainstate, fIndex,
                    tip, nAttempts, nPrompts, staleUse, wiped, fHaveGenesis,
                    sd, cs_Shutdown, hist, initError, disk, imp,
                    fRequestShutdown >>

\* if (fReset) { pblocktree->WriteReindexing(true);
\*               if (fPruneMode) CleanupBlockRevFiles(); }
\* and, the attempt having loaded, the spawn of ThreadImport
PruneCleanup ==
    /\ pc = "MarkReindexing"
    /\ fReset
    /\ disk' = [disk EXCEPT !.reindexing = TRUE,
                            !.blocksdir = IF args.prune
                                          THEN CleanupBlockRevFiles(@)
                                          ELSE @]
    /\ imp' = [imp EXCEPT !.pc = "reindexScan", !.nFile = 0]
    /\ pc' = "GenesisWait"
    /\ UNCHANGED << cleanupFrame, fReindex, fRequestShutdown >>

\* one pass of the while (true) of ThreadImport over the files by name:
\* if (!fs::exists(GetBlockPosFilename(pos))) break; if (!file) break;
\* LoadExternalBlockFile; if (ShutdownRequested()) return; nFile++;
ReindexNames ==
    /\ imp.pc = "reindexScan"
    /\ \E opens \in BOOLEAN :
         IF BlockFileName(imp.nFile) \in disk.blocksdir /\ opens
         THEN /\ imp' = [imp EXCEPT
                           !.imported = Append(@, << "blk", imp.nFile >>),
                           !.pc = IF ShutdownRequested THEN "done" ELSE @,
                           !.nFile = IF ShutdownRequested THEN @ ELSE @ + 1]
              /\ UNCHANGED << disk, fReindex >>
         ELSE /\ imp' = [imp EXCEPT
                           !.pc = "bootstrap",
                           !.reindexEnd =
                              IF BlockFileName(imp.nFile) \in disk.blocksdir
                              THEN "unopened" ELSE "missing"]
              /\ disk' = [disk EXCEPT !.reindexing = FALSE]
              /\ fReindex' = FALSE
    /\ UNCHANGED << cleanupFrame, pc, fRequestShutdown >>

NextCleanup ==
    \/ FullReindexAttempt
    \/ PruneCleanup
    \/ ReindexNames
    \/ HandleSIGTERM

SpecCleanup == InitCleanup /\ [][NextCleanup]_vars

\* C38: after CleanupBlockRevFiles (full reindex in prune mode) the blocks
\* directory holds no rev file and, of the blk files, exactly the contiguous
\* run of block files that starts at index 0 of the directory as it was; a
\* reindex scan that ends at a missing file has replayed exactly these files
C38_KeepsContiguousRun ==
    LET run(dir) == { BlockFileName(n) :
                        n \in { m \in 0 .. MaxFileIndex :
                                  \A j \in 0 .. m : BlockFileName(j) \in dir } }
    IN  (pc # "MarkReindexing" /\ args.prune) =>
          /\ disk.blocksdir = run(disk.before)
          /\ imp.reindexEnd = "missing" =>
               { BlockFileName(imp.imported[i][2]) :
                   i \in 1 .. Len(imp.imported) } = disk.blocksdir

\* the directory held blk00000.dat and a file blk+0000.dat: the cleanup has
\* removed blk00000.dat and the reindex scan has ended with nothing replayed
C38_Witness ==
    /\ args.prune
    /\ BlockFileName(0) \in disk.before
    /\ << "blk", << "+", "0", "0", "0", "0" >> >> \in disk.blocksdir
    /\ BlockFileName(0) \notin disk.blocksdir
    /\ imp.reindexEnd = "missing" /\ imp.imported = << >>

(* ------------------- the wallet database environments ------------------- *)

\* In the steps below sys holds g_dbenvs, the BerkeleyEnvironment objects and
\* the directory locks of the process, and sd the threads that use them:
\*   sys.g_dbenvs[d]  the environment the weak pointer of directory d points
\*                    to, 0 when the map has no key d
\*   sys.envs[e]      use_count of the shared pointers to e (0: the weak
\*                    pointers to e are expired), alive (the destructor has
\*                    not ended), fDbEnvInit, strPath
\*   sys.dir_locks    the directories whose .walletlock this process holds
\*   sd[t]            pc, the shared pointer env the thread holds (0: empty)
\*                    and the last call of the thread with its result

WalletThreads == 1 .. MaxWalletThreads

WalletDirs == {"wallets", "wallets/w1"}

NoEnv == [use_count |-> 0, alive |-> FALSE, fDbEnvInit |-> FALSE,
          strPath |-> ""]

InitWalletEnv ==
    /\ fRequestShutdown = FALSE
    /\ dirLock = "self" /\ pidFile = "self"
    /\ fRPCInWarmup = FALSE
    /\ fReindex = FALSE /\ fReset = FALSE /\ fLoaded = TRUE
    /\ strLoadError = FALSE
    /\ pblocktree = 0 /\ evoDb = 0 /\ constructed = 0
    /\ openBlockTree = {} /\ openEvo = {} /\ openCoins = {}
    /\ deterministicMNManager = 0 /\ quorumSnapshotManager = 0
    /\ llmqSystem = 0
    /\ g_chainstate = NullChainState
    /\ fIndex = {}
    /\ tip = FALSE
    /\ nAttempts = 0 /\ nPrompts = 0 /\ staleUse = FALSE /\ wiped = {}
    /\ imp = InitImp
    /\ fHaveGenesis = FALSE
    /\ cs_Shutdown = -1
    /\ hist = InitHist
    /\ pc = "Running"
    /\ initError = "none"
    /\ cache = NoCache("small")
    /\ args = DefaultArgs
    /\ disk = UsedDisk
    /\ sys = [g_dbenvs |-> [d \in WalletDirs |-> 0],
              envs |-> [e \in 1 .. MaxEnvs |-> NoEnv],
              dir_locks |-> {}]
    /\ sd = [t \in WalletThreads |-> [pc |-> "idle", env |-> 0, last |-> "none"]]

\* what the steps over the wallet environments leave alone
walletFrame == << args, cache, pc, fRequestShutdown, dirLock, pidFile,
                  fRPCInWarmup, fReindex, fReset, fLoaded, strLoadError,
                  pblocktree, evoDb, constructed, openBlockTree, openEvo,
                  openCoins, deterministicMNManager, quorumSnapshotManager,
                  llmqSystem, g_chainstate, disk, fIndex, tip, nAttempts,
                  nPrompts, staleUse, wiped, imp, fHaveGenesis, cs_Shutdown,
                  hist, initError >>

\* GetWalletEnv, under LOCK(cs_db): emplace of an empty weak pointer; if it
\* was inserted a new environment is made and returned, else the result is
\* lock() of the weak pointer found, which is empty when that is expired
GetWalletEnv(t, d) ==
    /\ sd[t].pc = "idle"
    /\ IF sys.g_dbenvs[d] = 0
       THEN \E e \in 1 .. MaxEnvs :
              /\ ~sys.envs[e].alive /\ sys.envs[e].strPath = ""
              /\ \A o \in 1 .. e - 1 : sys.envs[o].strPath # ""
              /\ sys' = [sys EXCEPT
                           !.g_dbenvs[d] = e,
                           !.envs[e] = [use_count |-> 1, alive |-> TRUE,
                                        fDbEnvInit |-> FALSE, strPath |-> d]]
              /\ sd' = [sd EXCEPT ![t] = [pc |-> "holding", env |-> e,
                                          last |-> "GetWalletEnv"]]
       ELSE LET e == sys.g_dbenvs[d]
            IN  IF sys.envs[e].use_count > 0
                THEN /\ sys' = [sys EXCEPT !.envs[e].use_count = @ + 1]
                     /\ sd' = [sd EXCEPT ![t] = [pc |-> "holding", env |-> e,
                                                 last |-> "GetWalletEnv"]]
                ELSE /\ sd' = [sd EXCEPT ![t] = [pc |-> "idle", env |-> 0,
                                                 last |-> "GetWalletEnv"]]
                     /\ UNCHANGED sys
    /\ UNCHANGED walletFrame

\* a thread drops its shared pointer; the thread that drops the last one
\* runs the destructor
ReleaseEnv(t) ==
    /\ sd[t].pc = "holding"
    /\ sys' = [sys EXCEPT !.envs[sd[t].env].use_count = @ - 1]
    /\ sd' = [sd EXCEPT ![t].pc = IF sys.envs[sd[t].env].use_count = 1
                                  THEN "destructor" ELSE "idle",
                        ![t].env = IF sys.envs[sd[t].env].use_count = 1
                                   THEN @ ELSE 0,
                        ![t].last = "release"]
    /\ UNCHANGED walletFrame

\* BerkeleyEnvironment::Reset
Reset(env) == [env EXCEPT !.fDbEnvInit = FALSE]

\* BerkeleyEnvironment::Close: if (!fDbEnvInit) return; fDbEnvInit = false;
\* ... UnlockDirectory(strPath, ".walletlock");
Close(s, e) ==
    IF ~s.envs[e].fDbEnvInit THEN s
    ELSE [s EXCEPT !.envs[e].fDbEnvInit = FALSE,
                   !.dir_locks = @ \ {s.envs[e].strPath}]

\* BerkeleyEnvironment::Open, by its return value: true at once when
\* fDbEnvInit; false when LockDirectory fails; when dbenv->open fails,
\* dbenv->close, Reset() and false; else fDbEnvInit = true and true.
\* LockDirectory succeeds on a directory this process has locked, else
\* unless another process holds the lock
Open(s, e, locks, ret) ==
    IF s.envs[e].fDbEnvInit THEN [sys |-> s, result |-> TRUE]
    ELSE IF s.envs[e].strPath \notin s.dir_locks /\ ~locks
    THEN [sys |-> s, result |-> FALSE]
    ELSE LET locked == [s EXCEPT !.dir_locks = @ \cup {s.envs[e].strPath}]
         IN  IF ret # 0
             THEN [sys |-> [locked EXCEPT !.envs[e] = Reset(@)],
                   result |-> FALSE]
             ELSE [sys |-> [locked EXCEPT !.envs[e].fDbEnvInit = TRUE],
                   result |-> TRUE]

\* ~BerkeleyEnvironment: LOCK(cs_db); g_dbenvs.erase(strPath); Close();
Destructor(t) ==
    /\ sd[t].pc = "destructor"
    /\ LET e == sd[t].env
           erased == [sys EXCEPT !.g_dbenvs[sys.envs[e].strPath] = 0]
       IN  sys' = [Close(erased, e) EXCEPT !.envs[e].alive = FALSE]
    /\ sd' = [sd EXCEPT ![t] = [pc |-> "idle", env |-> 0, last |-> "destructor"]]
    /\ UNCHANGED walletFrame

\* a thread that holds an environment calls Open on it
CallOpen(t) ==
    /\ sd[t].pc = "holding"
    /\ \E locks \in BOOLEAN, ret \in {0, 1} :
         LET r == Open(sys, sd[t].env, locks, ret)
         IN  /\ sys' = r.sys
             /\ sd' = [sd EXCEPT ![t].last = IF r.result THEN "Open: true"
                                             ELSE "Open: false"]
    /\ UNCHANGED walletFrame

\* a thread that holds an environment calls Close on it
CallClose(t) ==
    /\ sd[t].pc = "holding"
    /\ sys' = Close(sys, sd[t].env)
    /\ sd' = [sd EXCEPT ![t].last = "Close"]
    /\ UNCHANGED walletFrame

NextWalletEnv ==
    \/ \E t \in WalletThreads, d \in WalletDirs : GetWalletEnv(t, d)
    \/ \E t \in WalletThreads : ReleaseEnv(t)
    \/ \E t \in WalletThreads : Destructor(t)
    \/ \E t \in WalletThreads : CallOpen(t)
    \/ \E t \in WalletThreads : CallClose(t)

SpecWalletEnv == InitWalletEnv /\ [][NextWalletEnv]_vars

\* C39: no call of GetWalletEnv has returned an empty pointer, and no wallet
\* directory has more than one BerkeleyEnvironment whose destructor has not
\* ended
C39_EnvNeverEmpty ==
    /\ \A t \in WalletThreads :
         sd[t].last = "GetWalletEnv" => sd[t].env # 0
    /\ \A d \in WalletDirs :
         Cardinality({ e \in 1 .. MaxEnvs :
                         sys.envs[e].alive /\ sys.envs[e].strPath = d }) <= 1

\* one thread has dropped the last shared pointer to the environment of a
\* directory and has not yet run the destructor; the other thread asked for
\* the environment of that directory and got an empty pointer
C39_Witness ==
    \E t \in WalletThreads, u \in WalletThreads, d \in WalletDirs :
      /\ sd[t].pc = "destructor"
      /\ sys.envs[sd[t].env].strPath = d /\ sys.envs[sd[t].env].use_count = 0
      /\ sys.g_dbenvs[d] = sd[t].env
      /\ sd[u].last = "GetWalletEnv" /\ sd[u].env = 0 /\ sd[u].pc = "idle"

\* C40: an Open that returned false has left the environment not initialized
\* and the wallet directory not locked by this process, and a Close has left
\* nothing locked; an Open on an initialized environment returns true and
\* changes nothing
C40_FailedOpenLeavesNothing ==
    [][ \A t \in WalletThreads :
          LET e == sd[t].env
          IN  /\ (sd[t].pc = "holding" /\ sd'[t].last = "Open: false"
                  /\ sys.envs[e].strPath \notin sys.dir_locks) =>
                   /\ ~sys'.envs[e].fDbEnvInit
                   /\ sys'.dir_locks = sys.dir_locks
              /\ (sd[t].pc = "holding" /\ sd'[t].last = "Close"
                  /\ sd[t].last # "Close") =>
                   sys.envs[e].strPath \notin sys'.dir_locks
              /\ (sd[t].pc = "holding" /\ sys.envs[e].fDbEnvInit
                  /\ sd'[t].last \in {"Open: true", "Open: false"}
                  /\ sd'[t].last # sd[t].last) =>
                   sd'[t].last = "Open: true" /\ sys' = sys
      ]_vars

\* an Open has failed behind the lock of the directory and a Close followed:
\* the environment is not initialized and the directory is still locked
C40_Witness ==
    \E t \in WalletThreads :
      /\ sd[t].pc = "holding" /\ sd[t].last = "Close"
      /\ ~sys.envs[sd[t].env].fDbEnvInit
      /\ sys.envs[sd[t].env].use_count = 1
      /\ sys.envs[sd[t].env].strPath \in sys.dir_locks
      /\ \A e \in 1 .. MaxEnvs : e # sd[t].env => sys.envs[e].strPath = ""

====
